---- MODULE Spec2Model ----
(***************************************************************************)
(* Tool resolution and provisioning engine of pandoc-desktop               *)
(* (src-tauri/src/manager.rs, pandoc.rs, utils.rs).                        *)
(*                                                                         *)
(* Strings are TLA+ strings; Option<T> is a sequence of length 0 (None)    *)
(* or 1 (Some(x)); Result<T, String> is a record [ok, val, err].           *)
(***************************************************************************)
EXTENDS Naturals, Sequences, FiniteSets, TLC

VARIABLES
    \* --- platform matcher / download (manager.rs) ---
    config,        \* DownloadConfig {target_os, target_arch, use_mirrors}
    download_type, \* DownloadType: "Pandoc" | "Typst"
    patterns,      \* Option<Vec<String>>: result of the last pattern lookup
    dlPc,          \* position of the download call
    dlVersion,     \* the version argument of download_tool
    selected,      \* Option<GithubAsset>: the asset matched for the platform
    releaseAssets, \* assets of the release the download looked at
    mirrorIdx,     \* index into DOWNLOAD_MIRRORS of the next mirror to try
    attempts,      \* sequence of download_file attempts of this call
    destFile,      \* state of target_dir/asset.name on disk
    creates,       \* number of successful File::create calls of this call
    writes,        \* number of completed write_all calls of this call
    dlResult,      \* Option<Result<String, String>> of the download call
    \* --- tool managers / resolution (manager.rs, pandoc.rs, utils.rs) ---
    fs,            \* filesystem: path -> state of the file at that path
    pathLookup,    \* Option<String>: what `which pandoc` prints
    sources,       \* Vec<PandocManager> of the current call
    nvalidate,     \* per manager of `sources`: validate calls made on it
    mgrPc,         \* position of the manager call
    mgrOp,         \* the command being executed
    mgrIdx,        \* loop index into `sources`
    bestResult,    \* Option<PandocManager> returned by get_best_pandoc_manager
    resolveCall,   \* Option<[op, custom_path]>: the resolve call made
    resolveResult, \* Option<Result<PandocInfo, String>> of that call
    managedPath,   \* Option<Option<PathBuf>>: result of the managed lookup
    \* --- release registry client and version comparison (manager.rs) ---
    regCall,       \* Option<[op, ...]>: the registry command called, its inputs
    regGets,       \* HTTP GETs issued by that call
    regResult,     \* Option<Result<_, String>> of that call
    version_str,   \* the argument of normalize_version
    normalized,    \* Option<String>: what normalize_version returned
    \* --- archive extraction (manager.rs) ---
    archive_path,  \* the archive_path argument of extract_archive_unified
    extract_dir,   \* files of the extraction directory: name -> attributes
    extractor,     \* the extractors invoked by the call, in order
    extractResult, \* Option<Result<String, String>> of the call
    extractions,   \* directory contents after each successful extraction
    \* --- managed updates (manager.rs, pandoc.rs) ---
    updTasks,      \* the update / install commands in flight, per task
    \* --- further commands and helpers (utils.rs, lib.rs, pandoc.rs) ---
    cmdCall,       \* Option<[op, ...]>: the function called, with its inputs
    cmdResult      \* Option<_>: what that call returned

platVars == <<config, download_type, patterns>>
dlVars == <<dlPc, dlVersion, selected, releaseAssets, mirrorIdx, attempts,
            destFile, creates, writes, dlResult>>
mgrVars == <<sources, nvalidate, mgrPc, mgrOp, mgrIdx, bestResult>>
envVars == <<fs, pathLookup>>
resVars == <<resolveCall, resolveResult>>
locVars == <<managedPath>>
regVars == <<regCall, regGets, regResult>>
verVars == <<version_str, normalized>>
arcVars == <<archive_path, extract_dir, extractor, extractResult, extractions>>
updVars == <<updTasks>>
cmdVars == <<cmdCall, cmdResult>>
vars == <<platVars, dlVars, mgrVars, envVars, resVars, locVars, regVars, verVars,
          arcVars, updVars, cmdVars>>

----------------------------------------------------------------------------
(* Option and Result *)

None == <<>>
Some(x) == <<x>>
IsSome(o) == Len(o) = 1
Unwrap(o) == o[1]

Ok(v) == [ok |-> TRUE, val |-> v, err |-> ""]
Err(e) == [ok |-> FALSE, val |-> "", err |-> e]

(* str::contains: pat occurs in s as a contiguous substring *)
Contains(s, pat) ==
    \E i \in 1..(Len(s) + 1) :
        /\ i + Len(pat) - 1 <= Len(s)
        /\ SubSeq(s, i, i + Len(pat) - 1) = pat

(* Iterator::position over a sequence of booleans: the index of the first
   TRUE, 0 when there is none *)
FirstTrue(flags) ==
    IF \E i \in 1..Len(flags) : flags[i]
    THEN CHOOSE i \in 1..Len(flags) :
            /\ flags[i]
            /\ \A j \in 1..(i - 1) : ~flags[j]
    ELSE 0

----------------------------------------------------------------------------
(* Platform matcher *)

OSes == {"windows", "macos", "linux", "freebsd", "android", "ios"}
Archs == {"x86_64", "aarch64", "x86", "arm", "riscv64"}

(* Mutant: the final catch-all arm is missing its default pattern *)
get_pandoc_asset_patterns_NoDefault(target_os, target_arch) ==
    CASE target_os = "windows" -> <<"windows-x86_64">>
      [] target_os = "macos" /\ target_arch = "aarch64" -> <<"arm64-macOS">>
      [] target_os = "macos" /\ target_arch = "x86_64" -> <<"x86_64-macOS">>
      [] target_os = "macos" /\ target_arch \notin {"aarch64", "x86_64"} -> <<"macOS">>
      [] target_os = "linux" /\ target_arch = "aarch64" -> <<"linux-arm64">>
      [] target_os = "linux" /\ target_arch # "aarch64" -> <<"linux-amd64">>
      [] OTHER -> <<>>

get_pandoc_asset_patterns_for_platform(target_os, target_arch) ==
    CASE target_os = "windows" /\ target_arch = "x86_64" -> <<"windows-x86_64">>
      [] target_os = "macos" /\ target_arch = "aarch64" -> <<"arm64-macOS">>
      [] target_os = "macos" /\ target_arch = "x86_64" -> <<"x86_64-macOS">>
      [] target_os = "linux" /\ target_arch = "aarch64" -> <<"linux-arm64">>
      [] target_os = "linux" /\ target_arch = "x86_64" -> <<"linux-amd64">>
      [] target_os = "windows" /\ target_arch # "x86_64" -> <<"windows-x86_64">>
      [] target_os = "macos" /\ target_arch \notin {"aarch64", "x86_64"} -> <<"macOS">>
      [] target_os = "linux" /\ target_arch \notin {"aarch64", "x86_64"} -> <<"linux-amd64">>
      [] OTHER -> <<"linux-amd64">>

get_typst_asset_pattern(target_os, target_arch) ==
    CASE target_os = "windows" /\ target_arch = "x86_64" -> "x86_64-pc-windows-msvc"
      [] target_os = "macos" /\ target_arch = "aarch64" -> "aarch64-apple-darwin"
      [] target_os = "macos" /\ target_arch = "x86_64" -> "x86_64-apple-darwin"
      [] target_os = "linux" /\ target_arch = "x86_64" -> "x86_64-unknown-linux-musl"
      [] target_os = "linux" /\ target_arch = "aarch64" -> "aarch64-unknown-linux-musl"
      [] OTHER -> "x86_64-unknown-linux-musl"

(* The patterns the download of one tool kind looks for: the pandoc download
   iterates a list, the typst download uses a single pattern. *)
AssetPatterns(kind, target_os, target_arch) ==
    IF kind = "Pandoc"
    THEN get_pandoc_asset_patterns_for_platform(target_os, target_arch)
    ELSE <<get_typst_asset_pattern(target_os, target_arch)>>

----------------------------------------------------------------------------
(* Release registry client *)

PANDOC_REPO == "jgm/pandoc"
TYPST_REPO == "typst/typst"

(* What the registry (the UNGH API) lists, newest first: the payload of each
   release as JSON, of which the client reads the "tag" field. *)
RegistryReleases(repo) ==
    IF repo = PANDOC_REPO
    THEN <<[tag |-> Some("3.7.0.2")], [tag |-> Some("3.6")]>>
    ELSE <<[tag |-> Some("v0.13.1")]>>

(* Outcomes of one HTTP GET against the registry: a transport failure, a
   non-2xx status, a body that cannot be read, a body that is not JSON, JSON
   without the wrapping field, or the listing. *)
ApiOutcomes == {"transport", "status", "read", "json", "shape", "ok"}

GithubAsset(name, url, content_type) ==
    [name |-> name, download_url |-> url, size |-> 0, content_type |-> content_type]

generate_github_assets(tag) ==
    LET base_url == "https://github.com/jgm/pandoc/releases/download/" \o tag
        asset(suffix, ct) ==
            GithubAsset("pandoc-" \o tag \o suffix,
                        base_url \o "/pandoc-" \o tag \o suffix, ct)
    IN  << asset("-windows-x86_64.msi", "application/x-msi"),
           asset("-windows-x86_64.zip", "application/zip"),
           asset("-macOS.pkg", "application/x-apple-diskimage"),
           asset("-macOS.zip", "application/zip"),
           asset("-linux-amd64.tar.gz", "application/gzip"),
           asset(".tar.gz", "application/gzip") >>

parse_ungh_release(data) ==
    LET tag_name == IF IsSome(data.tag) THEN Unwrap(data.tag) ELSE ""
    IN  Ok([tag_name |-> tag_name, assets |-> generate_github_assets(tag_name)])

(* The body of get_latest_pandoc_release / get_latest_typst_release after
   its GET of /repos/<repo>/releases/latest came back with outcome api and,
   when the body is JSON, with release_data under "release" (None: the field
   is absent or null). *)
latest_release(api, release_data) ==
    CASE api = "transport" -> Err("Failed to fetch release info")
      [] api = "status" -> Err("API request failed with status")
      [] api = "read" -> Err("Failed to read response")
      [] api = "json" -> Err("Failed to parse JSON")
      [] api \in {"shape", "ok"} /\ ~IsSome(release_data) ->
            Err("No release data found in response")
      [] OTHER -> parse_ungh_release(Unwrap(release_data))

(* get_latest_pandoc_release / get_latest_typst_release against the
   registry's listing of repo *)
get_latest_release(repo, api) ==
    latest_release(api, IF api = "shape" THEN None
                        ELSE Some(RegistryReleases(repo)[1]))

(* get_pandoc_releases: one GET of /repos/jgm/pandoc/releases; every entry of
   the "releases" array that parses is kept, in the listed order; the limit
   is read into _page_limit and not used. *)
get_pandoc_releases_from(releases_data, limit, api) ==
    CASE api = "transport" -> Err("Failed to fetch releases")
      [] api = "status" -> Err("API request failed with status")
      [] api = "read" -> Err("Failed to read response")
      [] api = "json" -> Err("Failed to parse JSON")
      [] api = "shape" -> Err("No releases array found in response")
      [] OTHER ->
            Ok([i \in 1..Len(releases_data) |->
                    parse_ungh_release(releases_data[i]).val])

(* ... of the registry's listing of the pandoc repository *)
get_pandoc_releases(limit, api) ==
    get_pandoc_releases_from(RegistryReleases(PANDOC_REPO), limit, api)

----------------------------------------------------------------------------
(* Mirrored downloader *)

DOWNLOAD_MIRRORS == <<"https://hub.gitmirror.com/", "https://gh.ddlc.top/", "">>

construct_mirror_url(mirror, original_url) ==
    IF mirror = "" THEN original_url ELSE mirror \o original_url

(* Asset selection of download_pandoc_internal: the first pattern for which
   some asset name contains it selects the first such asset. *)
SelectPandocAsset(assets, target_os, target_arch) ==
    LET pats == get_pandoc_asset_patterns_for_platform(target_os, target_arch)
        match(pat) == FirstTrue([i \in 1..Len(assets) |-> Contains(assets[i].name, pat)])
        p == FirstTrue([k \in 1..Len(pats) |-> match(pats[k]) # 0])
    IN  IF p = 0 THEN None ELSE Some(assets[match(pats[p])])

(* Asset selection of download_typst_internal: one pattern. *)
SelectTypstAsset(assets, target_os, target_arch) ==
    LET pat == get_typst_asset_pattern(target_os, target_arch)
        i == FirstTrue([k \in 1..Len(assets) |-> Contains(assets[k].name, pat)])
    IN  IF i = 0 THEN None ELSE Some(assets[i])

(* Outcomes of one download_file call, by the step that fails: the request
   (transport), the status check, create_dir_all, File::create, reading the
   body, write_all; or none. File::flush of a std file cannot fail. *)
DownloadOutcomes == {"transport", "status", "mkdir", "create", "body", "write", "ok"}
ConnectFailures == {"transport", "status"}

(* Mutant: the destination file is created before the request is sent *)
download_file_CreatesFirst(url, dest_path, file, outcome) ==
    CASE outcome \in {"transport", "status", "body"} ->
            [result |-> Err("Download failed"), file |-> "empty",
             created |-> 1, written |-> 0]
      [] outcome \in {"mkdir", "create"} ->
            [result |-> Err("Failed to create file"), file |-> file,
             created |-> 0, written |-> 0]
      [] outcome = "write" ->
            [result |-> Err("Failed to write file"), file |-> "partial",
             created |-> 1, written |-> 0]
      [] OTHER ->
            [result |-> Ok(dest_path), file |-> "complete",
             created |-> 1, written |-> 1]

(* download_file(url, dest_path) with the given outcome, on a destination
   file in state `file`: the result, the file afterwards, and whether
   File::create and write_all completed. *)
download_file(url, dest_path, file, outcome) ==
    CASE outcome = "transport" ->
            [result |-> Err("Failed to start download"), file |-> file,
             created |-> 0, written |-> 0]
      [] outcome = "status" ->
            [result |-> Err("Download failed with status"), file |-> file,
             created |-> 0, written |-> 0]
      [] outcome = "mkdir" ->
            [result |-> Err("Failed to create directory"), file |-> file,
             created |-> 0, written |-> 0]
      [] outcome = "create" ->
            [result |-> Err("Failed to create file"), file |-> file,
             created |-> 0, written |-> 0]
      [] outcome = "body" ->
            [result |-> Err("Failed to read response bytes"), file |-> "empty",
             created |-> 1, written |-> 0]
      [] outcome = "write" ->
            [result |-> Err("Failed to write file"), file |-> "partial",
             created |-> 1, written |-> 0]
      [] OTHER ->
            [result |-> Ok(dest_path), file |-> "complete",
             created |-> 1, written |-> 1]

----------------------------------------------------------------------------
(* download_tool: the part before the first download_file call *)

DownloadDir == "dl"

(* Path::join of the download directory and the asset name *)
DownloadPath(asset) == DownloadDir \o "/" \o asset.name

(* download_pandoc_internal up to the mirror loop: the releases listing, the
   release with the requested tag, the asset for the platform. *)
PreparePandoc(version, target_os, target_arch, api) ==
    LET releases == get_pandoc_releases(50, api)
        r == IF releases.ok
             THEN FirstTrue([i \in 1..Len(releases.val) |->
                                releases.val[i].tag_name = version])
             ELSE 0
        assets == IF r = 0 THEN <<>> ELSE releases.val[r].assets
        asset == SelectPandocAsset(assets, target_os, target_arch)
    IN  CASE ~releases.ok -> [result |-> Err(releases.err), assets |-> <<>>]
          [] releases.ok /\ r = 0 ->
                [result |-> Err("Version not found"), assets |-> <<>>]
          [] releases.ok /\ r # 0 /\ ~IsSome(asset) ->
                [result |-> Err("No compatible asset found"), assets |-> assets]
          [] OTHER -> [result |-> Ok(Unwrap(asset)), assets |-> assets]

(* download_typst_internal up to the mirror loop: the version argument is
   not used, the latest release is fetched and its assets searched. *)
PrepareTypst(version, target_os, target_arch, api) ==
    LET release == get_latest_release(TYPST_REPO, api)
        assets == IF release.ok THEN release.val.assets ELSE <<>>
        asset == SelectTypstAsset(assets, target_os, target_arch)
    IN  CASE ~release.ok -> [result |-> Err(release.err), assets |-> <<>>]
          [] release.ok /\ ~IsSome(asset) ->
                [result |-> Err("No compatible Typst asset found"), assets |-> assets]
          [] OTHER -> [result |-> Ok(Unwrap(asset)), assets |-> assets]

(* download_tool: the version defaults to the latest release's tag (one more
   GET, with outcome apiLatest), then the tool's internal download. *)
PrepareDownload(kind, version, target_os, target_arch, apiLatest, api) ==
    LET repo == IF kind = "Pandoc" THEN PANDOC_REPO ELSE TYPST_REPO
        latest == get_latest_release(repo, apiLatest)
        v == IF IsSome(version) THEN Unwrap(version)
             ELSE IF latest.ok THEN latest.val.tag_name ELSE ""
    IN  IF ~IsSome(version) /\ ~latest.ok
        THEN [result |-> Err(latest.err), assets |-> <<>>]
        ELSE IF kind = "Pandoc"
             THEN PreparePandoc(v, target_os, target_arch, api)
             ELSE PrepareTypst(v, target_os, target_arch, api)

(* Mutant: a successful download does not leave the loop before the last
   mirror *)
MirrorLoopNext_ContinuesAfterSuccess(use_mirrors, idx, result) ==
    CASE ~use_mirrors -> [pc |-> "done", idx |-> idx, result |-> Some(result)]
      [] use_mirrors /\ idx < Len(DOWNLOAD_MIRRORS) ->
            [pc |-> "mirrors", idx |-> idx + 1, result |-> None]
      [] use_mirrors /\ idx >= Len(DOWNLOAD_MIRRORS) /\ result.ok ->
            [pc |-> "done", idx |-> idx, result |-> Some(result)]
      [] OTHER ->
            [pc |-> "done", idx |-> idx + 1,
             result |-> Some(Err("All download mirrors failed"))]

(* The mirror loop after one download_file call returned `result` for the
   mirror at index idx: return on success, try the next mirror on failure,
   the aggregate error after the last one. Without mirrors the single
   download's result is returned. *)
MirrorLoopNext(use_mirrors, idx, result) ==
    CASE ~use_mirrors -> [pc |-> "done", idx |-> idx, result |-> Some(result)]
      [] use_mirrors /\ result.ok ->
            [pc |-> "done", idx |-> idx, result |-> Some(result)]
      [] use_mirrors /\ ~result.ok /\ idx < Len(DOWNLOAD_MIRRORS) ->
            [pc |-> "mirrors", idx |-> idx + 1, result |-> None]
      [] OTHER ->
            [pc |-> "done", idx |-> idx + 1,
             result |-> Some(Err("All download mirrors failed"))]

(* The URL of the attempt about to start *)
AttemptUrl(use_mirrors, idx, asset) ==
    IF use_mirrors
    THEN construct_mirror_url(DOWNLOAD_MIRRORS[idx], asset.download_url)
    ELSE asset.download_url

SupportedPlatforms ==
    { <<"windows", "x86_64">>, <<"macos", "aarch64">>, <<"macos", "x86_64">>,
      <<"linux", "aarch64">>, <<"linux", "x86_64">> }

(* Platforms the download is exercised on: the supported ones and one
   unmapped pair. *)
DownloadPlatforms == SupportedPlatforms \cup { <<"freebsd", "riscv64">> }

RequestedVersions == {None, Some("3.7.0.2"), Some("3.6"), Some("9.9")}

----------------------------------------------------------------------------
(* Download actions *)

DownloadTool(kind, version, plat, use_mirrors, apiLatest, api, file0) ==
    /\ dlPc = "idle"
    /\ LET prep == PrepareDownload(kind, version, plat[1], plat[2], apiLatest, api)
       IN  /\ config' = [target_os |-> plat[1], target_arch |-> plat[2],
                         use_mirrors |-> use_mirrors]
           /\ download_type' = kind
           /\ dlVersion' = version
           /\ releaseAssets' = prep.assets
           /\ selected' = IF prep.result.ok THEN Some(prep.result.val) ELSE None
           /\ dlPc' = IF ~prep.result.ok THEN "done"
                      ELSE IF use_mirrors THEN "mirrors" ELSE "direct"
           /\ dlResult' = IF prep.result.ok THEN None ELSE Some(prep.result)
    /\ mirrorIdx' = 1
    /\ attempts' = <<>>
    /\ destFile' = file0
    /\ creates' = 0
    /\ writes' = 0
    /\ UNCHANGED <<patterns, mgrVars, envVars, resVars,
                   locVars, regVars, verVars, arcVars, updVars, cmdVars>>

(* The loop body up to the await of download_file *)
BeginAttempt ==
    /\ dlPc \in {"mirrors", "direct"}
    /\ attempts' = Append(attempts,
            [mirror |-> IF config.use_mirrors THEN mirrorIdx ELSE 0,
             url |-> AttemptUrl(config.use_mirrors, mirrorIdx, Unwrap(selected)),
             outcome |-> "inflight"])
    /\ dlPc' = "inflight"
    /\ UNCHANGED <<platVars, dlVersion, selected, releaseAssets, mirrorIdx,
                   destFile, creates, writes, dlResult, mgrVars, envVars, resVars,
                   locVars, regVars, verVars, arcVars, updVars, cmdVars>>

(* download_file returns, and the loop goes on *)
FinishAttempt(outcome) ==
    /\ dlPc = "inflight"
    /\ LET n == Len(attempts)
           r == download_file(attempts[n].url, DownloadPath(Unwrap(selected)),
                              destFile, outcome)
           next == MirrorLoopNext(config.use_mirrors, mirrorIdx, r.result)
       IN  /\ attempts' = [attempts EXCEPT ![n].outcome = outcome]
           /\ destFile' = r.file
           /\ creates' = creates + r.created
           /\ writes' = writes + r.written
           /\ dlPc' = next.pc
           /\ mirrorIdx' = next.idx
           /\ dlResult' = next.result
    /\ UNCHANGED <<platVars, dlVersion, selected, releaseAssets,
                   mgrVars, envVars, resVars,
                   locVars, regVars, verVars, arcVars, updVars, cmdVars>>

DlIdle ==
    /\ dlPc = "idle"
    /\ dlVersion = None
    /\ selected = None
    /\ releaseAssets = <<>>
    /\ mirrorIdx = 1
    /\ attempts = <<>>
    /\ destFile = "absent"
    /\ creates = 0
    /\ writes = 0
    /\ dlResult = None

PlatIdle ==
    /\ config = [target_os |-> "linux", target_arch |-> "x86_64", use_mirrors |-> TRUE]
    /\ download_type = "Pandoc"
    /\ patterns = None

MgrIdle ==
    /\ sources = <<>>
    /\ nvalidate = <<>>
    /\ mgrPc = "idle"
    /\ mgrOp = ""
    /\ mgrIdx = 1
    /\ bestResult = None

ResIdle ==
    /\ resolveCall = None
    /\ resolveResult = None

EnvEmpty ==
    /\ fs = <<>>
    /\ pathLookup = None

LocIdle == managedPath = None

RegIdle ==
    /\ regCall = None
    /\ regGets = 0
    /\ regResult = None

VerIdle ==
    /\ version_str = ""
    /\ normalized = None

ArcIdle ==
    /\ archive_path = ""
    /\ extract_dir = <<>>
    /\ extractor = <<>>
    /\ extractResult = None
    /\ extractions = <<>>

UpdIdle == updTasks = <<>>

CmdIdle ==
    /\ cmdCall = None
    /\ cmdResult = None

InitDownload ==
    /\ PlatIdle /\ DlIdle /\ MgrIdle /\ ResIdle /\ EnvEmpty
    /\ LocIdle /\ RegIdle /\ VerIdle /\ ArcIdle /\ UpdIdle /\ CmdIdle

NextDownload ==
    \/ \E kind \in {"Pandoc", "Typst"}, version \in RequestedVersions,
          plat \in DownloadPlatforms, use_mirrors \in BOOLEAN,
          apiLatest \in ApiOutcomes, api \in ApiOutcomes,
          file0 \in {"absent", "stale"} :
            DownloadTool(kind, version, plat, use_mirrors, apiLatest, api, file0)
    \/ BeginAttempt
    \/ \E outcome \in DownloadOutcomes : FinishAttempt(outcome)

SpecDownload == InitDownload /\ [][NextDownload]_vars

----------------------------------------------------------------------------
(* Filesystem and process environment *)

(* A file is missing; or exists without an executable bit (the version
   probe cannot spawn it); or exists and is executable but its version probe
   fails; or exists and its version probe exits successfully. *)
FileStates == {"missing", "noexec", "broken", "ok"}

ResourcePandocDir == "res/pandoc"
PortablePandocDir == "data/pandoc-portable"
PandocExe == "pandoc"
CustomPath == "/opt/custom/pandoc"

(* The files of the modelled filesystem; every other path is missing. *)
FsPaths ==
    { "res/pandoc/pandoc", "data/pandoc-portable/pandoc",
      "/usr/bin/pandoc", "/usr/local/bin/pandoc", CustomPath }

(* Path::exists *)
Exists(f, path) == path \in DOMAIN f /\ f[path] # "missing"

(* The version probe: `path --version` spawns and exits successfully *)
ProbeSucceeds(f, path) == path \in DOMAIN f /\ f[path] = "ok"

(* is_executable on unix: some executable bit of the mode is set *)
is_executable(f, path) == path \in DOMAIN f /\ f[path] \in {"broken", "ok"}

Join(dir, name) == dir \o "/" \o name

(* Subdirectories read_dir lists in a managed root *)
SubDirNames == <<"pandoc-3.7.0.2">>

(* Mutant: the first path of the sequence whose version probe succeeds *)
FirstExisting_FirstWorking(f, candidates) ==
    LET i == FirstTrue([k \in 1..Len(candidates) |-> ProbeSucceeds(f, candidates[k])])
    IN  IF i = 0 THEN None ELSE Some(candidates[i])

(* The first path of the sequence that exists *)
FirstExisting(f, candidates) ==
    LET i == FirstTrue([k \in 1..Len(candidates) |-> Exists(f, candidates[k])])
    IN  IF i = 0 THEN None ELSE Some(candidates[i])

find_pandoc_in_directory(f, base_dir, exe_name) ==
    LET direct == << Join(base_dir, exe_name), Join(Join(base_dir, "bin"), exe_name) >>
        sub(d) == << Join(Join(base_dir, d), exe_name),
                     Join(Join(Join(base_dir, d), "bin"), exe_name) >>
        nested == IF Len(SubDirNames) = 0 THEN <<>>
                  ELSE sub(SubDirNames[1])
    IN  FirstExisting(f, direct \o nested)

(* Mutant: the application-data directory is searched first *)
get_managed_pandoc_path_PortableFirst(f) ==
    LET portable == find_pandoc_in_directory(f, PortablePandocDir, PandocExe)
    IN  IF IsSome(portable) THEN portable
        ELSE find_pandoc_in_directory(f, ResourcePandocDir, PandocExe)

get_managed_pandoc_path(f) ==
    LET bundled == find_pandoc_in_directory(f, ResourcePandocDir, PandocExe)
    IN  IF IsSome(bundled) THEN bundled
        ELSE find_pandoc_in_directory(f, PortablePandocDir, PandocExe)

(* get_linux_common_paths with HOME unset *)
get_linux_common_paths == <<"/usr/bin/pandoc", "/usr/local/bin/pandoc">>

(* Vec::push of each element not yet contained *)
RECURSIVE PushMissing(_, _)
PushMissing(paths, more) ==
    IF more = <<>> THEN paths
    ELSE PushMissing(
            IF \E i \in 1..Len(paths) : paths[i] = Head(more)
            THEN paths ELSE Append(paths, Head(more)),
            Tail(more))

(* utils::get_search_paths: the PATH lookup result when the lookup
   succeeded, then the platform's common paths not yet present *)
get_search_paths(lookup) == PushMissing(lookup, get_linux_common_paths)

(* The paths of the sequence that exist and are executable, in its order *)
RECURSIVE ExecutablePaths(_, _)
ExecutablePaths(f, paths) ==
    IF paths = <<>> THEN <<>>
    ELSE IF Exists(f, Head(paths)) /\ is_executable(f, Head(paths))
         THEN <<Head(paths)>> \o ExecutablePaths(f, Tail(paths))
         ELSE ExecutablePaths(f, Tail(paths))

(* The paths of the sequence whose version probe succeeds, in its order *)
RECURSIVE ValidSearchPaths(_, _)
ValidSearchPaths(f, paths) ==
    IF paths = <<>> THEN <<>>
    ELSE IF ProbeSucceeds(f, Head(paths))
         THEN <<Head(paths)>> \o ValidSearchPaths(f, Tail(paths))
         ELSE ValidSearchPaths(f, Tail(paths))

----------------------------------------------------------------------------
(* PandocManager *)

Managed == [kind |-> "Managed", path |-> ""]
System(path) == [kind |-> "System", path |-> path]
Custom(path) == [kind |-> "Custom", path |-> path]

(* PandocManager::new *)
NewManager(source) == [source |-> source, info |-> None, available |-> FALSE]

get_executable_path(m, f) ==
    IF m.source.kind = "Managed" THEN get_managed_pandoc_path(f)
    ELSE Some(m.source.path)

(* PandocInfo, without the fields read from the probes' output (version,
   format lists) *)
PandocInfo(path, detected, searched) ==
    [path |-> path, is_working |-> TRUE,
     detected_paths |-> detected, search_paths |-> searched]

(* manager::validate_pandoc_executable *)
manager_validate_pandoc_executable(f, path) ==
    CASE ~Exists(f, path) -> Err("Pandoc executable not found")
      [] Exists(f, path) /\ f[path] = "noexec" -> Err("Failed to execute pandoc")
      [] Exists(f, path) /\ f[path] = "broken" -> Err("Pandoc failed to execute")
      [] OTHER -> Ok(PandocInfo(path, <<>>, <<>>))

(* Mutant: a failed validation clears `available` and leaves `info` *)
validate_KeepsInfoOnFailure(m, f) ==
    LET path == get_executable_path(m, f)
        v == IF IsSome(path)
             THEN manager_validate_pandoc_executable(f, Unwrap(path))
             ELSE Err("Failed to get executable path")
    IN  IF v.ok
        THEN [manager |-> [m EXCEPT !.info = Some(v.val), !.available = TRUE],
              result |-> Ok("")]
        ELSE [manager |-> [m EXCEPT !.available = FALSE],
              result |-> Err(v.err)]

(* PandocManager::validate: the manager afterwards and the result *)
validate(m, f) ==
    LET path == get_executable_path(m, f)
        v == IF IsSome(path)
             THEN manager_validate_pandoc_executable(f, Unwrap(path))
             ELSE Err("Failed to get executable path")
    IN  IF v.ok
        THEN [manager |-> [m EXCEPT !.info = Some(v.val), !.available = TRUE],
              result |-> Ok("")]
        ELSE [manager |-> [m EXCEPT !.info = None, !.available = FALSE],
              result |-> Err(v.err)]

(* Mutant: only the search paths whose version probe succeeds get a manager *)
DiscoveredSources_OnlyWorking(f, lookup) ==
    LET found == ValidSearchPaths(f, get_search_paths(lookup))
    IN  <<NewManager(Managed)>> \o [i \in 1..Len(found) |-> NewManager(System(found[i]))]

(* discover_pandoc_sources before the validation loop: the Managed manager,
   then one System manager per search path that exists and is executable *)
DiscoveredSources(f, lookup) ==
    LET found == ExecutablePaths(f, get_search_paths(lookup))
    IN  <<NewManager(Managed)>> \o [i \in 1..Len(found) |-> NewManager(System(found[i]))]

(* Mutant: the source is returned whatever its validate call said *)
BestLoopNext_IgnoresValidate(v, idx, n) ==
    [pc |-> "done", idx |-> idx, best |-> Some(v.manager)]

(* One iteration of the loop of get_best_pandoc_manager over source idx of
   n, whose validate gave v: return it when validate succeeded, go on
   otherwise, None after the last. *)
BestLoopNext(v, idx, n) ==
    CASE v.result.ok -> [pc |-> "done", idx |-> idx, best |-> Some(v.manager)]
      [] ~v.result.ok /\ idx < n -> [pc |-> "best", idx |-> idx + 1, best |-> None]
      [] OTHER -> [pc |-> "done", idx |-> idx + 1, best |-> None]

(* Validate calls made on one manager in a row by a direct caller *)
MaxValidations == 3

ManagerOps == {"discover_pandoc_sources", "get_best_pandoc_manager"}

----------------------------------------------------------------------------
(* Manager actions *)

(* discover_pandoc_sources up to its validation loop; get_best_pandoc_manager
   starts with the same call *)
DiscoverStart(op) ==
    /\ mgrPc = "idle"
    /\ mgrOp' = op
    /\ sources' = DiscoveredSources(fs, pathLookup)
    /\ nvalidate' = [i \in 1..Len(sources') |-> 0]
    /\ mgrIdx' = 1
    /\ mgrPc' = "discover"
    /\ bestResult' = None
    /\ UNCHANGED <<platVars, dlVars, envVars, resVars,
                   locVars, regVars, verVars, arcVars, updVars, cmdVars>>

(* One iteration of "for source in &mut sources { source.validate().await }" *)
DiscoverValidate ==
    /\ mgrPc = "discover"
    /\ sources' = [sources EXCEPT ![mgrIdx] = validate(sources[mgrIdx], fs).manager]
    /\ nvalidate' = [nvalidate EXCEPT ![mgrIdx] = @ + 1]
    /\ IF mgrIdx < Len(sources)
       THEN mgrIdx' = mgrIdx + 1 /\ mgrPc' = "discover"
       ELSE /\ mgrIdx' = 1
            /\ mgrPc' = IF mgrOp = "get_best_pandoc_manager" THEN "best" ELSE "done"
    /\ UNCHANGED <<mgrOp, bestResult, platVars, dlVars, envVars, resVars,
                   locVars, regVars, verVars, arcVars, updVars, cmdVars>>

(* One iteration of "for mut source in sources" of get_best_pandoc_manager *)
BestValidate ==
    /\ mgrPc = "best"
    /\ LET v == validate(sources[mgrIdx], fs)
           next == BestLoopNext(v, mgrIdx, Len(sources))
       IN  /\ sources' = [sources EXCEPT ![mgrIdx] = v.manager]
           /\ nvalidate' = [nvalidate EXCEPT ![mgrIdx] = @ + 1]
           /\ mgrPc' = next.pc
           /\ mgrIdx' = next.idx
           /\ bestResult' = next.best
    /\ UNCHANGED <<mgrOp, platVars, dlVars, envVars, resVars,
                   locVars, regVars, verVars, arcVars, updVars, cmdVars>>

(* A caller constructs a manager of its own *)
CreateManager(source) ==
    /\ mgrPc = "idle"
    /\ mgrOp' = "validate"
    /\ sources' = <<NewManager(source)>>
    /\ nvalidate' = <<0>>
    /\ mgrIdx' = 1
    /\ mgrPc' = "single"
    /\ bestResult' = None
    /\ UNCHANGED <<platVars, dlVars, envVars, resVars,
                   locVars, regVars, verVars, arcVars, updVars, cmdVars>>

(* ... and calls validate on it *)
ValidateManager ==
    /\ mgrPc = "single"
    /\ nvalidate[1] < MaxValidations
    /\ sources' = [sources EXCEPT ![1] = validate(sources[1], fs).manager]
    /\ nvalidate' = [nvalidate EXCEPT ![1] = @ + 1]
    /\ UNCHANGED <<mgrOp, mgrIdx, mgrPc, bestResult, platVars, dlVars, envVars, resVars,
                   locVars, regVars, verVars, arcVars, updVars, cmdVars>>

(* The call returns and its managers are dropped *)
ManagerReturn ==
    /\ mgrPc \in {"done", "single"}
    /\ sources' = <<>>
    /\ nvalidate' = <<>>
    /\ mgrPc' = "idle"
    /\ mgrOp' = ""
    /\ mgrIdx' = 1
    /\ bestResult' = None
    /\ UNCHANGED <<platVars, dlVars, envVars, resVars,
                   locVars, regVars, verVars, arcVars, updVars, cmdVars>>

(* A file is installed, removed, replaced or has its mode changed *)
EnvChange(path, st) ==
    /\ fs[path] # st
    /\ fs' = [fs EXCEPT ![path] = st]
    /\ UNCHANGED <<pathLookup, platVars, dlVars, mgrVars, resVars,
                   locVars, regVars, verVars, arcVars, updVars, cmdVars>>

PathLookups == {None, Some("/usr/local/bin/pandoc")}

ManagerSources ==
    {Managed, System("/usr/bin/pandoc"), Custom(CustomPath)}

----------------------------------------------------------------------------
(* Platform matcher applied to one (tool kind, os, arch) *)

GetAssetPatterns ==
    /\ patterns = None
    /\ patterns' = Some(AssetPatterns(download_type, config.target_os,
                                      config.target_arch))
    /\ UNCHANGED <<config, download_type, dlVars, mgrVars, envVars, resVars,
                   locVars, regVars, verVars, arcVars, updVars, cmdVars>>

InitPlatform ==
    /\ config \in [target_os : OSes, target_arch : Archs, use_mirrors : {TRUE}]
    /\ download_type \in {"Pandoc", "Typst"}
    /\ patterns = None
    /\ DlIdle /\ MgrIdle /\ ResIdle /\ EnvEmpty
    /\ LocIdle /\ RegIdle /\ VerIdle /\ ArcIdle /\ UpdIdle /\ CmdIdle

NextPlatform == GetAssetPatterns

SpecPlatform == InitPlatform /\ [][NextPlatform]_vars

----------------------------------------------------------------------------
(* Properties of the mirrored download *)

Failed(a) == a.outcome \notin {"ok", "inflight"}
LastAttempt == attempts[Len(attempts)]
AllMirrorsFailed ==
    IsSome(dlResult) /\ Unwrap(dlResult).err = "All download mirrors failed"

(* C6: with use_mirrors the mirrors (two prefixes, then the empty prefix) are
   tried strictly in list order, one attempt per mirror, one attempt in
   flight at a time, mirror i only after all mirrors before it failed; the
   first success ends the loop with success, and "all mirrors failed" is
   returned only after every mirror, the origin included, was tried and
   failed. *)
C6_MirrorsStrictlySequential ==
    config.use_mirrors =>
        /\ Len(DOWNLOAD_MIRRORS) = 3
        /\ DOWNLOAD_MIRRORS[1] # "" /\ DOWNLOAD_MIRRORS[2] # ""
        /\ DOWNLOAD_MIRRORS[3] = ""
        /\ Len(attempts) <= Len(DOWNLOAD_MIRRORS)
        /\ \A i \in 1..Len(attempts) :
              /\ attempts[i].mirror = i
              /\ attempts[i].url
                   = DOWNLOAD_MIRRORS[i] \o Unwrap(selected).download_url
              /\ i < Len(attempts) => Failed(attempts[i])
        /\ Cardinality({i \in 1..Len(attempts) : attempts[i].outcome = "inflight"}) <= 1
        /\ (attempts # <<>> /\ LastAttempt.outcome = "ok")
              => dlPc = "done" /\ IsSome(dlResult) /\ Unwrap(dlResult).ok
        /\ (IsSome(dlResult) /\ Unwrap(dlResult).ok)
              => attempts # <<>> /\ LastAttempt.outcome = "ok"
        /\ AllMirrorsFailed
              <=> /\ Len(attempts) = Len(DOWNLOAD_MIRRORS)
                  /\ \A i \in 1..Len(attempts) : Failed(attempts[i])

(* C6 witness: the second mirror succeeded after the first failed, and the
   loop ended there. *)
C6_Witness ==
    /\ config.use_mirrors
    /\ dlPc = "done"
    /\ Len(attempts) = 2
    /\ Failed(attempts[1])
    /\ attempts[2].outcome = "ok"
    /\ Unwrap(dlResult).ok

(* C7: when every mirror before the origin fails at connection time and the
   origin request succeeds, the download succeeds, the successful request
   went to the asset's origin URL unmodified, and target_dir/asset.name was
   created once and written once over the whole call. *)
C7_OriginFallback ==
    ( /\ config.use_mirrors
      /\ dlPc = "done"
      /\ Len(attempts) = Len(DOWNLOAD_MIRRORS)
      /\ \A i \in 1..(Len(attempts) - 1) : attempts[i].outcome \in ConnectFailures
      /\ LastAttempt.outcome = "ok" )
    => /\ Unwrap(dlResult).ok
       /\ Unwrap(dlResult).val = DownloadDir \o "/" \o Unwrap(selected).name
       /\ LastAttempt.url = Unwrap(selected).download_url
       /\ creates = 1
       /\ writes = 1
       /\ destFile = "complete"

(* C7 witness: both mirrors refused the connection, the origin delivered. *)
C7_Witness ==
    /\ config.use_mirrors
    /\ dlPc = "done"
    /\ Len(attempts) = 3
    /\ attempts[1].outcome = "transport"
    /\ attempts[2].outcome = "transport"
    /\ attempts[3].outcome = "ok"
    /\ creates = 1

----------------------------------------------------------------------------
(* Properties of the platform matcher and of the synthesized assets *)

KnownOSes == {"windows", "macos", "linux"}

(* C8: the pattern lookup is total: every (os, arch) pair gets a non-empty
   list of non-empty patterns; the Converter's list for (linux, x86_64)
   starts with a pattern containing "linux-amd64", and for every os other
   than windows, macos and linux it is exactly <<"linux-amd64">>. *)
C8_PatternsTotal ==
    IsSome(patterns) =>
        LET p == Unwrap(patterns)
        IN  /\ Len(p) > 0
            /\ \A i \in 1..Len(p) : Len(p[i]) > 0
            /\ download_type = "Pandoc" =>
                  /\ (config.target_os = "linux" /\ config.target_arch = "x86_64")
                        => Contains(p[1], "linux-amd64")
                  /\ config.target_os \notin KnownOSes => p = <<"linux-amd64">>

(* C8 witness: the patterns of the Converter on an unmapped platform. *)
C8_Witness ==
    /\ IsSome(patterns)
    /\ download_type = "Pandoc"
    /\ config.target_os = "freebsd"
    /\ config.target_arch = "riscv64"

(* C9: on each supported platform of the Converter the asset list
   synthesized for the release holds an asset whose name contains one of the
   platform's patterns, so the download does not end with "no compatible
   asset". *)
C9_SupportedPlatformHasAsset ==
    ( /\ download_type = "Pandoc"
      /\ <<config.target_os, config.target_arch>> \in SupportedPlatforms
      /\ releaseAssets # <<>> )
    => /\ \E i \in 1..Len(releaseAssets) :
            LET pats == get_pandoc_asset_patterns_for_platform(
                            config.target_os, config.target_arch)
            IN  \E k \in 1..Len(pats) : Contains(releaseAssets[i].name, pats[k])
       /\ IsSome(selected)
       /\ ~(IsSome(dlResult) /\ Unwrap(dlResult).err = "No compatible asset found")

(* C10: the assets synthesized for a Typesetter release follow the
   Typesetter's upstream template (typst/typst), and on every supported
   platform the Typesetter download finds an asset whose name contains the
   platform's pattern. *)
C10_TypstAssetsFromTypstRepo ==
    ( /\ download_type = "Typst"
      /\ releaseAssets # <<>> )
    => /\ \A i \in 1..Len(releaseAssets) :
            /\ Contains(releaseAssets[i].name, "typst")
            /\ Contains(releaseAssets[i].download_url,
                        "https://github.com/typst/typst/releases/download/")
       /\ <<config.target_os, config.target_arch>> \in SupportedPlatforms
            => IsSome(selected)

----------------------------------------------------------------------------
(* Manager specification *)

InitManager ==
    /\ fs \in [FsPaths -> FileStates]
    /\ pathLookup \in PathLookups
    /\ PlatIdle /\ DlIdle /\ MgrIdle /\ ResIdle
    /\ LocIdle /\ RegIdle /\ VerIdle /\ ArcIdle /\ UpdIdle /\ CmdIdle

NextManager ==
    \/ \E op \in ManagerOps : DiscoverStart(op)
    \/ DiscoverValidate
    \/ BestValidate
    \/ \E source \in ManagerSources : CreateManager(source)
    \/ ValidateManager
    \/ ManagerReturn
    \/ \E path \in FsPaths, st \in FileStates : EnvChange(path, st)

SpecManager == InitManager /\ [][NextManager]_vars

----------------------------------------------------------------------------
(* Properties of the managers *)

(* Position of a path in the search paths (0 when absent) *)
SearchPosition(path) ==
    LET sp == get_search_paths(pathLookup)
    IN  FirstTrue([i \in 1..Len(sp) |-> sp[i] = path])

BestDone == mgrPc = "done" /\ mgrOp = "get_best_pandoc_manager"

(* C3: get_best_pandoc_manager returns the first available manager of the
   discovery sequence, in which the Managed manager comes first and the
   System managers follow in search-path order; it returns None exactly when
   no manager of the sequence validates, and a manager it returns has
   available = TRUE. *)
C3_BestIsFirstAvailable ==
    BestDone =>
        /\ sources[1].source.kind = "Managed"
        /\ \A i \in 2..Len(sources) :
              /\ sources[i].source.kind = "System"
              /\ SearchPosition(sources[i].source.path) > 0
              /\ \A j \in 2..(i - 1) :
                    SearchPosition(sources[j].source.path)
                        < SearchPosition(sources[i].source.path)
        /\ bestResult = None <=> \A i \in 1..Len(sources) : ~sources[i].available
        /\ IsSome(bestResult) =>
              /\ Unwrap(bestResult).available
              /\ \E k \in 1..Len(sources) :
                    /\ sources[k] = Unwrap(bestResult)
                    /\ \A j \in 1..(k - 1) : ~sources[j].available

(* C3 witness: the Managed manager and the first System manager did not
   validate, and the second System manager was returned. *)
C3_Witness ==
    /\ BestDone
    /\ Len(sources) = 3
    /\ IsSome(bestResult)
    /\ Unwrap(bestResult) = sources[3]
    /\ ~sources[1].available
    /\ ~sources[2].available

ManagerShape(m) ==
    \/ m.available /\ IsSome(m.info) /\ Unwrap(m.info).is_working
    \/ ~m.available /\ m.info = None

(* C4: after construction and after every validate call a manager is either
   (available, info present, info.is_working) or (not available, info
   absent). *)
C4_AvailableIffInfo ==
    /\ \A i \in 1..Len(sources) : ManagerShape(sources[i])
    /\ IsSome(bestResult) => ManagerShape(Unwrap(bestResult))

(* C4 witness: a manager validated more than once that ended unavailable. *)
C4_Witness ==
    /\ mgrPc = "single"
    /\ nvalidate[1] = MaxValidations
    /\ ~sources[1].available
    /\ sources[1].source.kind = "Custom"
    /\ fs[CustomPath] = "broken"

(* C5: within one resolution attempt each manager goes through validate
   exactly once; get_best_pandoc_manager does not write info/available of a
   manager that discover_pandoc_sources has validated. *)
C5_ValidatedExactlyOnce ==
    mgrOp \in ManagerOps =>
        \A i \in 1..Len(sources) :
            /\ nvalidate[i] <= 1
            /\ mgrPc = "done" => nvalidate[i] = 1

----------------------------------------------------------------------------
(* Resolution of the executable (pandoc.rs) *)

(* Mutant: a file that exists is taken as valid without the version probe *)
utils_validate_pandoc_executable_ExistsOnly(f, path) == Exists(f, path)

(* utils::validate_pandoc_executable: the file exists and its version probe
   exits successfully; false on any failure *)
utils_validate_pandoc_executable(f, path) == Exists(f, path) /\ ProbeSucceeds(f, path)

(* The valid ones among the paths, in order, each once *)
RECURSIVE ValidPaths(_, _, _)
ValidPaths(f, paths, acc) ==
    IF paths = <<>> THEN acc
    ELSE ValidPaths(f, Tail(paths),
            IF /\ utils_validate_pandoc_executable(f, Head(paths))
               /\ ~\E i \in 1..Len(acc) : acc[i] = Head(paths)
            THEN Append(acc, Head(paths)) ELSE acc)

find_all_pandoc_paths(f, lookup) == ValidPaths(f, get_search_paths(lookup), <<>>)

(* pandoc::get_pandoc_info: the custom path when one is given, else the first
   detected path; then the version probe of that command *)
get_pandoc_info(custom_path, f, lookup) ==
    LET search_paths == get_search_paths(lookup)
        detected_paths == find_all_pandoc_paths(f, lookup)
        pandoc_cmd == IF IsSome(custom_path) THEN Unwrap(custom_path)
                      ELSE IF detected_paths # <<>> THEN detected_paths[1]
                      ELSE ""
    IN  CASE ~IsSome(custom_path) /\ detected_paths = <<>> -> Err("Pandoc not found")
          [] (IsSome(custom_path) \/ detected_paths # <<>>)
                /\ ~ProbeSucceeds(f, pandoc_cmd) ->
                Err("Pandoc failed to execute")
          [] OTHER -> Ok(PandocInfo(pandoc_cmd, detected_paths, search_paths))

(* pandoc::get_pandoc_info_with_portable: the managed executable first when
   it validates, else get_pandoc_info of the custom path *)
get_pandoc_info_with_portable(custom_path, f, lookup) ==
    LET managed_path == get_executable_path(NewManager(Managed), f)
    IN  IF /\ IsSome(managed_path)
           /\ utils_validate_pandoc_executable(f, Unwrap(managed_path))
        THEN get_pandoc_info(managed_path, f, lookup)
        ELSE get_pandoc_info(custom_path, f, lookup)

CustomPaths == {None, Some(CustomPath)}

GetPandocInfo(custom_path) ==
    /\ resolveCall = None
    /\ resolveCall' = Some([op |-> "get_pandoc_info", custom_path |-> custom_path])
    /\ resolveResult' = Some(get_pandoc_info(custom_path, fs, pathLookup))
    /\ UNCHANGED <<platVars, dlVars, mgrVars, envVars,
                   locVars, regVars, verVars, arcVars, updVars, cmdVars>>

GetPandocInfoWithPortable(custom_path) ==
    /\ resolveCall = None
    /\ resolveCall' = Some([op |-> "get_pandoc_info_with_portable",
                            custom_path |-> custom_path])
    /\ resolveResult' = Some(get_pandoc_info_with_portable(custom_path, fs, pathLookup))
    /\ UNCHANGED <<platVars, dlVars, mgrVars, envVars,
                   locVars, regVars, verVars, arcVars, updVars, cmdVars>>

InitResolve ==
    /\ fs \in [FsPaths -> FileStates]
    /\ pathLookup \in PathLookups
    /\ PlatIdle /\ DlIdle /\ MgrIdle /\ ResIdle
    /\ LocIdle /\ RegIdle /\ VerIdle /\ ArcIdle /\ UpdIdle /\ CmdIdle

NextResolve ==
    \/ \E custom_path \in CustomPaths : GetPandocInfo(custom_path)
    \/ \E custom_path \in CustomPaths : GetPandocInfoWithPortable(custom_path)

SpecResolve == InitResolve /\ [][NextResolve]_vars

----------------------------------------------------------------------------
(* Properties of the resolution *)

CustomSupplied == IsSome(resolveCall) /\ IsSome(Unwrap(resolveCall).custom_path)
SuppliedPath == Unwrap(Unwrap(resolveCall).custom_path)

ManagedValid ==
    /\ IsSome(get_managed_pandoc_path(fs))
    /\ fs[Unwrap(get_managed_pandoc_path(fs))] = "ok"

ValidSystemPaths ==
    LET sp == get_search_paths(pathLookup)
    IN  {i \in 1..Len(sp) : Exists(fs, sp[i]) /\ fs[sp[i]] = "ok"}

FirstValidSystemPath ==
    LET sp == get_search_paths(pathLookup)
    IN  sp[CHOOSE i \in ValidSystemPaths : \A j \in ValidSystemPaths : i <= j]

(* C1: with a valid Custom path, a valid Managed executable and a valid
   System executable all present, resolve returns the info whose path is the
   Custom path. *)
C1_CustomWins ==
    ( /\ CustomSupplied
      /\ fs[SuppliedPath] = "ok"
      /\ ManagedValid
      /\ ValidSystemPaths # {} )
    => /\ Unwrap(resolveResult).ok
       /\ Unwrap(resolveResult).val.path = SuppliedPath

(* C2: with a Custom path supplied that fails validation while a Managed or
   System candidate is valid, resolve returns no error but the info of the
   Managed candidate if that is valid, else of the first valid System path. *)
C2_InvalidCustomFallsThrough ==
    ( /\ CustomSupplied
      /\ fs[SuppliedPath] # "ok"
      /\ (ManagedValid \/ ValidSystemPaths # {}) )
    => /\ Unwrap(resolveResult).ok
       /\ Unwrap(resolveResult).val.path
            = IF ManagedValid THEN Unwrap(get_managed_pandoc_path(fs))
              ELSE FirstValidSystemPath

----------------------------------------------------------------------------
(* String operations of the Rust standard library used on version strings *)

(* char::is_whitespace, over the characters that occur *)
IsWhitespace(c) == c \in {" ", "\t", "\n", "\r"}

(* char::is_ascii_digit *)
IsDigit(c) == c \in {"0", "1", "2", "3", "4", "5", "6", "7", "8", "9"}

CharAt(s, i) == SubSeq(s, i, i)
DropChars(s, n) == SubSeq(s, n + 1, Len(s))

RECURSIVE TrimStart(_)
TrimStart(s) ==
    IF Len(s) > 0 /\ IsWhitespace(CharAt(s, 1)) THEN TrimStart(DropChars(s, 1)) ELSE s

RECURSIVE TrimEnd(_)
TrimEnd(s) ==
    IF Len(s) > 0 /\ IsWhitespace(CharAt(s, Len(s)))
    THEN TrimEnd(SubSeq(s, 1, Len(s) - 1)) ELSE s

(* str::trim *)
Trim(s) == TrimEnd(TrimStart(s))

(* str::trim_start_matches(char): every leading occurrence is removed *)
RECURSIVE TrimStartMatches(_, _)
TrimStartMatches(s, c) ==
    IF Len(s) > 0 /\ CharAt(s, 1) = c THEN TrimStartMatches(DropChars(s, 1), c) ELSE s

(* str::split_whitespace: the maximal runs of non-whitespace, in order *)
RECURSIVE SplitWhitespace(_)
SplitWhitespace(s) ==
    LET t == TrimStart(s)
        w == FirstTrue([i \in 1..Len(t) |-> IsWhitespace(CharAt(t, i))])
        n == IF w = 0 THEN Len(t) ELSE w - 1
    IN  IF Len(t) = 0 THEN <<>>
        ELSE <<SubSeq(t, 1, n)>> \o SplitWhitespace(DropChars(t, n))

(* str::replace(pat, ""): the non-overlapping occurrences, left to right *)
RECURSIVE Remove(_, _)
Remove(s, pat) ==
    IF Len(s) < Len(pat) THEN s
    ELSE IF SubSeq(s, 1, Len(pat)) = pat THEN Remove(DropChars(s, Len(pat)), pat)
         ELSE CharAt(s, 1) \o Remove(DropChars(s, 1), pat)

(* str::lines().next(): the text before the first line feed, without a
   trailing carriage return; none for the empty string *)
FirstLine(s) ==
    LET nl == FirstTrue([i \in 1..Len(s) |-> CharAt(s, i) = "\n"])
        line == IF nl = 0 THEN s ELSE SubSeq(s, 1, nl - 1)
    IN  IF Len(s) = 0 THEN None
        ELSE IF Len(line) > 0 /\ CharAt(line, Len(line)) = "\r"
             THEN Some(SubSeq(line, 1, Len(line) - 1))
             ELSE Some(line)

(* The loop "for ch in part.chars()" that pushes digits and dots and breaks
   at the first other character *)
LeadingVersion(part) ==
    LET stop == FirstTrue([i \in 1..Len(part) |->
                    ~(IsDigit(CharAt(part, i)) \/ CharAt(part, i) = ".")])
    IN  IF stop = 0 THEN part ELSE SubSeq(part, 1, stop - 1)

StartsWithDigit(part) == Len(part) > 0 /\ IsDigit(CharAt(part, 1))

----------------------------------------------------------------------------
(* Version strings (manager.rs) *)

(* Mutant: the leading "v" of a part is kept *)
normalize_version_KeepsV(s) ==
    LET text == Trim(s)
        parts == SplitWhitespace(text)
        version(part) ==
            IF ~Contains(part, "pandoc") /\ StartsWithDigit(part)
            THEN LeadingVersion(part) ELSE ""
        i == FirstTrue([k \in 1..Len(parts) |-> version(parts[k]) # ""])
        cleaned == Trim(Remove(Remove(text, "pandoc.exe"), "pandoc"))
    IN  IF i # 0 THEN version(parts[i])
        ELSE IF cleaned # "" THEN cleaned ELSE text

(* normalize_version: the digits and dots that start the first part which,
   after its leading v's, starts with a digit, parts containing "pandoc"
   skipped; else the text with the program names and leading v's removed;
   else the trimmed text *)
normalize_version(s) ==
    LET text == Trim(s)
        parts == SplitWhitespace(text)
        version(part) ==
            LET p == TrimStartMatches(part, "v")
            IN  IF ~Contains(part, "pandoc") /\ StartsWithDigit(p)
                THEN LeadingVersion(p) ELSE ""
        i == FirstTrue([k \in 1..Len(parts) |-> version(parts[k]) # ""])
        cleaned == Trim(TrimStartMatches(
                        Trim(Remove(Remove(text, "pandoc.exe"), "pandoc")), "v"))
    IN  IF i # 0 THEN version(parts[i])
        ELSE IF cleaned # "" THEN cleaned ELSE text

(* extract_version_from_output: the same search on the first line of the
   probe's output, without the removal of leading v's *)
extract_version_from_output(output) ==
    LET first == FirstLine(output)
        first_line == IF IsSome(first) THEN Unwrap(first) ELSE "Unknown"
        parts == SplitWhitespace(Trim(first_line))
        version(part) ==
            IF ~Contains(part, "pandoc") /\ StartsWithDigit(part)
            THEN LeadingVersion(part) ELSE ""
        i == FirstTrue([k \in 1..Len(parts) |-> version(parts[k]) # ""])
    IN  IF i # 0 THEN version(parts[i])
        ELSE Trim(Remove(Remove(first_line, "pandoc.exe"), "pandoc"))

(* extract_clean_version: leading v's removed, trimmed, the first
   whitespace-separated part; the argument itself when there is none *)
extract_clean_version(version) ==
    LET parts == SplitWhitespace(Trim(TrimStartMatches(version, "v")))
    IN  IF parts = <<>> THEN version ELSE parts[1]

(* Strings of digits and dots that start with a digit *)
DottedVersions ==
    {"3.7.0.2", "3.6", "3.", "2", "10.0", "0.1.2", "3..1", "1.19.2.1", "2.19",
     "3.1.11.1", "0", "3.7.0.", "20.04"}

VersionPrefixes == {"", "v", "pandoc ", "pandoc.exe "}

(* The arguments normalize_version is applied to: the four forms of each
   dotted version, and strings of other shapes *)
VersionInputs ==
    {p \o v : p \in VersionPrefixes, v \in DottedVersions}
    \cup {" ", "   ", "\t", "pandoc", "pandoc.exe", " pandoc ", "v", "vv",
          "none", "unknown", "3.7-rc1", "v3.7.0.2-nightly", "pandoc 3.7.0.2 rc",
          ".", "v.", "pandoc v", "version 3.7", "pandocv3", "x",
          "pandoc3.7-rc1", "pandoc-3.7.0.2", "pandoc.exe3x"}

NormalizeVersion ==
    /\ normalized = None
    /\ normalized' = Some(normalize_version(version_str))
    /\ UNCHANGED <<version_str, platVars, dlVars, mgrVars, envVars, resVars,
                   locVars, regVars, arcVars, updVars, cmdVars>>

InitVersion ==
    /\ version_str \in VersionInputs
    /\ normalized = None
    /\ PlatIdle /\ DlIdle /\ MgrIdle /\ ResIdle /\ EnvEmpty
    /\ LocIdle /\ RegIdle /\ ArcIdle /\ UpdIdle /\ CmdIdle

NextVersion == NormalizeVersion

SpecVersion == InitVersion /\ [][NextVersion]_vars

IsDottedVersion(v) ==
    /\ StartsWithDigit(v)
    /\ \A i \in 1..Len(v) : IsDigit(CharAt(v, i)) \/ CharAt(v, i) = "."

(* C15: for every string V of digits and dots that starts with a digit,
   normalize_version of "pandoc.exe " + V, of "pandoc " + V, of "v" + V and
   of V is V; the four forms of 3.7.0.2 give "3.7.0.2". *)
C15_NormalizeDottedVersion ==
    IsSome(normalized) =>
        /\ \A v \in DottedVersions :
              /\ IsDottedVersion(v)
              /\ version_str \in {"pandoc.exe " \o v, "pandoc " \o v, "v" \o v, v}
                    => Unwrap(normalized) = v
        /\ version_str \in {"pandoc.exe 3.7.0.2", "pandoc 3.7.0.2", "v3.7.0.2", "3.7.0.2"}
              => Unwrap(normalized) = "3.7.0.2"

(* C15 witness: the v-prefixed form of a version has been normalized. *)
C15_Witness ==
    /\ version_str = "v3.7.0.2"
    /\ normalized = Some("3.7.0.2")

(* C16: normalize_version returns a non-empty string for every non-empty
   argument, whitespace-only, program-name-only and v-only arguments
   included. *)
C16_NormalizeNonEmpty ==
    (IsSome(normalized) /\ version_str # "") => Unwrap(normalized) # ""

----------------------------------------------------------------------------
(* Registry commands and the update check (manager.rs) *)

(* What a response can carry under "release": nothing (absent or null), an
   object whose "tag" is not a string, or an object with a string tag *)
LatestTags == {"3.7.0.2", "v3.7.0.2", "3.6", "3.7.0.2-rc1"}
ReleasePayloads ==
    {None, Some([tag |-> None])} \cup {Some([tag |-> Some(t)]) : t \in LatestTags}

(* First lines and more of what `pandoc --version` prints *)
ProbeOutputs ==
    {"pandoc 3.7.0.2\nFeatures: +server +lua", "pandoc.exe 3.6", "pandoc 3.7.0.2", ""}

(* The current_version argument of get_version_info *)
CurrentVersions ==
    {None, Some("3.6"), Some("3.7.0.2"), Some("pandoc 3.7.0.2"), Some("v3.7.0.2")}

(* check_bundled_pandoc_update: the version of the Managed executable when
   it validates ("none" otherwise), the latest release, and the comparison
   of the two after extract_clean_version *)
BundledVersion(f, probe_output) ==
    IF validate(NewManager(Managed), f).result.ok
    THEN extract_version_from_output(probe_output)
    ELSE "none"

check_bundled_pandoc_update(f, probe_output, api, release_data) ==
    LET current_version == BundledVersion(f, probe_output)
        latest_release_ == latest_release(api, release_data)
    IN  IF ~latest_release_.ok THEN Err(latest_release_.err)
        ELSE Ok(extract_clean_version(current_version)
                    # extract_clean_version(latest_release_.val.tag_name))

(* get_version_info: the latest release, the listing, and the comparison of
   the normalized versions; without a current version an update is
   available *)
get_version_info(current_version, apiLatest, release_data, api) ==
    LET latest_release_ == latest_release(apiLatest, release_data)
        releases == get_pandoc_releases(20, api)
    IN  CASE ~latest_release_.ok -> Err(latest_release_.err)
          [] latest_release_.ok /\ ~releases.ok -> Err(releases.err)
          [] OTHER ->
                LET latest_version == latest_release_.val.tag_name
                IN  Ok([current |-> current_version,
                        latest |-> Some(latest_version),
                        available_versions |->
                            [i \in 1..Len(releases.val) |-> releases.val[i].tag_name],
                        is_update_available |->
                            IF IsSome(current_version)
                            THEN normalize_version(Unwrap(current_version))
                                    # normalize_version(latest_version)
                            ELSE TRUE])

RegistryCall(op, repo, api, release_data, current) ==
    Some([op |-> op, repo |-> repo, api |-> api, release |-> release_data,
          current |-> current])

(* get_latest_pandoc_release / get_latest_typst_release *)
GetLatestRelease(repo, api, release_data) ==
    /\ regCall = None
    /\ regCall' = RegistryCall("get_latest_release", repo, api, release_data, None)
    /\ regGets' = regGets + 1
    /\ regResult' = Some(latest_release(api, release_data))
    /\ UNCHANGED <<platVars, dlVars, mgrVars, envVars, resVars, locVars, verVars,
                   arcVars, updVars, cmdVars>>

CheckBundledPandocUpdate(probe_output, api, release_data) ==
    /\ regCall = None
    /\ regCall' = RegistryCall("check_bundled_pandoc_update", PANDOC_REPO, api,
                               release_data, Some(BundledVersion(fs, probe_output)))
    /\ regGets' = regGets + 1
    /\ regResult' = Some(check_bundled_pandoc_update(fs, probe_output, api, release_data))
    /\ UNCHANGED <<platVars, dlVars, mgrVars, envVars, resVars, locVars, verVars,
                   arcVars, updVars, cmdVars>>

GetVersionInfo(current_version, apiLatest, release_data, api) ==
    /\ regCall = None
    /\ regCall' = RegistryCall("get_version_info", PANDOC_REPO, apiLatest,
                               release_data, current_version)
    /\ regGets' = IF latest_release(apiLatest, release_data).ok
                  THEN regGets + 2 ELSE regGets + 1
    /\ regResult' = Some(get_version_info(current_version, apiLatest, release_data, api))
    /\ UNCHANGED <<platVars, dlVars, mgrVars, envVars, resVars, locVars, verVars,
                   arcVars, updVars, cmdVars>>

(* The managed executable is absent, does not run, or runs *)
InitRegistry ==
    /\ \E st \in {"missing", "broken", "ok"} :
          fs = [path \in FsPaths |->
                    IF path = Join(ResourcePandocDir, PandocExe) THEN st ELSE "missing"]
    /\ pathLookup = None
    /\ PlatIdle /\ DlIdle /\ MgrIdle /\ ResIdle
    /\ LocIdle /\ RegIdle /\ VerIdle /\ ArcIdle /\ UpdIdle /\ CmdIdle

NextRegistry ==
    \/ \E repo \in {PANDOC_REPO, TYPST_REPO}, api \in ApiOutcomes,
          release_data \in ReleasePayloads :
            GetLatestRelease(repo, api, release_data)
    \/ \E probe_output \in ProbeOutputs, api \in ApiOutcomes,
          release_data \in ReleasePayloads :
            CheckBundledPandocUpdate(probe_output, api, release_data)
    \/ \E current_version \in CurrentVersions, apiLatest \in ApiOutcomes,
          release_data \in ReleasePayloads, api \in ApiOutcomes :
            GetVersionInfo(current_version, apiLatest, release_data, api)

SpecRegistry == InitRegistry /\ [][NextRegistry]_vars

RegistryOp == IF IsSome(regCall) THEN Unwrap(regCall).op ELSE ""

(* C11: a latest-release call issues exactly one GET, and returns an error,
   never a release, when the transport fails, the status is not 2xx, the
   body is not JSON, the "release" field is absent or null, or the payload
   under it has no string tag. *)
C11_LatestReleaseErrors ==
    RegistryOp = "get_latest_release" =>
        LET call == Unwrap(regCall)
        IN  /\ regGets = 1
            /\ ( \/ call.api # "ok"
                 \/ ~IsSome(call.release)
                 \/ ~IsSome(Unwrap(call.release).tag) )
                  => ~Unwrap(regResult).ok

(* C17: the update check returns false exactly when normalize_version of the
   current managed version equals normalize_version of the latest tag;
   current "3.6" against latest "3.7.0.2" gives true. *)
C17_UpdateIffNormalizedDiffer ==
    ( /\ RegistryOp \in {"check_bundled_pandoc_update", "get_version_info"}
      /\ IsSome(Unwrap(regCall).current)
      /\ Unwrap(regResult).ok
      /\ IsSome(Unwrap(Unwrap(regCall).release).tag) )
    => LET call == Unwrap(regCall)
           current == Unwrap(call.current)
           latest == Unwrap(Unwrap(call.release).tag)
           answer == IF call.op = "get_version_info"
                     THEN Unwrap(regResult).val.is_update_available
                     ELSE Unwrap(regResult).val
       IN  /\ answer = FALSE <=> normalize_version(current) = normalize_version(latest)
           /\ (current = "3.6" /\ latest = "3.7.0.2") => answer = TRUE

----------------------------------------------------------------------------
(* Paths and the extraction directory *)

(* str::ends_with *)
EndsWith(s, suffix) ==
    Len(s) >= Len(suffix) /\ SubSeq(s, Len(s) - Len(suffix) + 1, Len(s)) = suffix

(* Index of the last occurrence of the character c in s, 0 when none *)
LastIndexOf(s, c) ==
    LET idx == {i \in 1..Len(s) : CharAt(s, i) = c}
    IN  IF idx = {} THEN 0 ELSE CHOOSE i \in idx : \A j \in idx : j <= i

(* Path::file_name: the final component *)
FileName(path) == DropChars(path, LastIndexOf(path, "/"))

(* Path::extension().and_then(to_str).unwrap_or(""): the part of the file
   name after its last dot; none when the name has no dot or only a leading
   one *)
Extension(path) ==
    LET name == FileName(path)
        dot == LastIndexOf(name, ".")
    IN  IF name = ".." \/ dot <= 1 THEN "" ELSE DropChars(name, dot)

(* Path::parent of a path relative to the extraction directory; "" is the
   extraction directory itself *)
Parent(name) ==
    LET slash == LastIndexOf(name, "/")
    IN  IF slash = 0 THEN "" ELSE SubSeq(name, 1, slash - 1)

(* The names an extraction can touch below the extraction directory *)
DirNames == {"bin", "bin/pandoc", "COPYING"}

(* A file or directory on disk: its content, the user's execute and write
   permission on it, and whether the user owns it (chmod needs ownership) *)
DiskEntry(kind, content, exec, write, own) ==
    [kind |-> kind, content |-> content, exec |-> exec, write |-> write, own |-> own]

(* What File::create and create_dir make under the default umask *)
NewFile == DiskEntry("file", "", FALSE, TRUE, TRUE)
NewDir == DiskEntry("dir", "", TRUE, TRUE, TRUE)

IsFile(dir, name) == IsSome(dir[name]) /\ Unwrap(dir[name]).kind = "file"
IsDir(dir, name) == name = "" \/ (IsSome(dir[name]) /\ Unwrap(dir[name]).kind = "dir")

(* An archive member: its name in the archive, its data, its unix mode *)
Entry(name, content, mode) == [name |-> name, content |-> content, mode |-> mode]

Mode(exec, write) == Some([exec |-> exec, write |-> write])

EntryIsDir(e) == EndsWith(e.name, "/")

(* extract_dir.join(file.name()), relative to the extraction directory *)
OutPath(e) == IF EntryIsDir(e) THEN SubSeq(e.name, 1, Len(e.name) - 1) ELSE e.name

(* std::fs::create_dir_all of a path below the extraction directory: fails
   when the path or its parent is a file *)
create_dir_all(dir, name) ==
    CASE name = "" -> [ok |-> TRUE, dir |-> dir]
      [] name # "" /\ IsFile(dir, name) -> [ok |-> FALSE, dir |-> dir]
      [] name # "" /\ ~IsFile(dir, name) /\ ~IsDir(dir, Parent(name)) ->
            [ok |-> FALSE, dir |-> dir]
      [] name # "" /\ IsDir(dir, name) /\ IsDir(dir, Parent(name)) ->
            [ok |-> TRUE, dir |-> dir]
      [] OTHER -> [ok |-> TRUE, dir |-> [dir EXCEPT ![name] = Some(NewDir)]]

(* std::fs::set_permissions(path, from_mode(mode)).ok(), when the member has
   a unix mode: chmod fails on a file the user does not own, and the error is
   ignored *)
set_permissions(file, mode) ==
    IF IsSome(mode) /\ file.own
    THEN [file EXCEPT !.exec = Unwrap(mode).exec, !.write = Unwrap(mode).write]
    ELSE file

----------------------------------------------------------------------------
(* Archive extraction (manager.rs) *)

ExtractDirName == ResourcePandocDir

(* The archives on disk, by path: their members in archive order *)
ArchiveEntries(path) ==
    CASE path = "dl/pandoc-3.7.0.2-macOS.zip" ->
            << Entry("bin/", "", Mode(TRUE, TRUE)),
               Entry("bin/pandoc", "3.7.0.2", Mode(TRUE, TRUE)),
               Entry("COPYING", "3.7.0.2", Mode(FALSE, TRUE)) >>
      [] path = "dl/pandoc-3.7.0.2-windows-x86_64.zip" ->
            << Entry("bin/pandoc", "3.7.0.2", None),
               Entry("COPYING", "3.7.0.2", None) >>
      [] path = "dl/docs.zip" ->
            << Entry("COPYING", "3.7.0.2", Mode(FALSE, FALSE)) >>
      [] path \in {"dl/pandoc-3.7.0.2-linux-amd64.tar.gz", "dl/pandoc.tar.bak.gz",
                   "dl/pandoc-3.7.0.2.tar.xz"} ->
            << Entry("bin/", "", Mode(TRUE, TRUE)),
               Entry("bin/pandoc", "3.7.0.2", Mode(TRUE, TRUE)),
               Entry("COPYING", "3.7.0.2", Mode(FALSE, TRUE)) >>
      [] OTHER -> <<>>

(* The archives a download leaves in the managed directory *)
ReleaseArchives ==
    {"dl/pandoc-3.7.0.2-macOS.zip", "dl/pandoc-3.7.0.2-windows-x86_64.zip",
     "dl/docs.zip", "dl/pandoc-3.7.0.2-linux-amd64.tar.gz"}

(* The archive_path arguments tried *)
ArchivePaths ==
    {"dl/pandoc-3.7.0.2-macOS.zip", "dl/pandoc-3.7.0.2-windows-x86_64.zip",
     "dl/docs.zip", "dl/pandoc-3.7.0.2-linux-amd64.tar.gz",
     "dl/pandoc-3.7.0.2.tar.xz", "dl/pandoc.tar.bak.gz", "dl/notes.gz",
     "dl/data.xz", "dl/pandoc-3.7.0.2-windows-x86_64.msi",
     "dl/pandoc-3.7.0.2-macOS.pkg", "dl/.zip", "dl/pandoc"}

(* Where an extraction fails for a reason outside the directory: not at
   all, when the archive is opened, when member `at` is read from the
   archive, or while member `at` is copied to its file *)
NoFailure == [at |-> 0, kind |-> "none"]
FailureKinds == {"read", "copy"}

StepResult(ok, err, dir) == [ok |-> ok, err |-> err, dir |-> dir]

(* Mutant: the permissions are set before the file is created *)
ZipEntryStep_PermissionsBeforeCreate(dir, e, failure) ==
    LET out == OutPath(e)
        d == create_dir_all(dir, out)
        p == create_dir_all(dir, Parent(out))
        chmodded == IF IsFile(p.dir, out)
                    THEN set_permissions(Unwrap(p.dir[out]), e.mode)
                    ELSE NewFile
        created == [chmodded EXCEPT !.content = ""]
    IN  CASE failure = "read" ->
                StepResult(FALSE, "Failed to read file from archive", dir)
          [] failure # "read" /\ EntryIsDir(e) /\ ~d.ok ->
                StepResult(FALSE, "Failed to create directory", dir)
          [] failure # "read" /\ EntryIsDir(e) /\ d.ok ->
                StepResult(TRUE, "",
                    [d.dir EXCEPT ![out] = Some(set_permissions(Unwrap(@), e.mode))])
          [] failure # "read" /\ ~EntryIsDir(e) /\ ~p.ok ->
                StepResult(FALSE, "Failed to create parent directory", dir)
          [] failure # "read" /\ ~EntryIsDir(e) /\ p.ok
                /\ (IsDir(p.dir, out) \/ (IsFile(p.dir, out) /\ ~Unwrap(p.dir[out]).write)) ->
                StepResult(FALSE, "Failed to create extracted file", p.dir)
          [] failure = "copy" /\ ~EntryIsDir(e) /\ p.ok
                /\ ~(IsDir(p.dir, out) \/ (IsFile(p.dir, out) /\ ~Unwrap(p.dir[out]).write)) ->
                StepResult(FALSE, "Failed to extract file",
                    [p.dir EXCEPT ![out] = Some([created EXCEPT !.content = "partial"])])
          [] OTHER ->
                StepResult(TRUE, "",
                    [p.dir EXCEPT ![out] = Some([created EXCEPT !.content = e.content])])

(* One iteration of the loop of extract_zip over member e: a directory
   member is created; a file member has its parent created, its file created
   or truncated and the data copied into it; then the member's unix mode, if
   any, is applied *)
ZipEntryStep(dir, e, failure) ==
    LET out == OutPath(e)
        d == create_dir_all(dir, out)
        p == create_dir_all(dir, Parent(out))
        created == IF IsFile(p.dir, out)
                   THEN [Unwrap(p.dir[out]) EXCEPT !.content = ""]
                   ELSE NewFile
    IN  CASE failure = "read" ->
                StepResult(FALSE, "Failed to read file from archive", dir)
          [] failure # "read" /\ EntryIsDir(e) /\ ~d.ok ->
                StepResult(FALSE, "Failed to create directory", dir)
          [] failure # "read" /\ EntryIsDir(e) /\ d.ok ->
                StepResult(TRUE, "",
                    [d.dir EXCEPT ![out] = Some(set_permissions(Unwrap(@), e.mode))])
          [] failure # "read" /\ ~EntryIsDir(e) /\ ~p.ok ->
                StepResult(FALSE, "Failed to create parent directory", dir)
          [] failure # "read" /\ ~EntryIsDir(e) /\ p.ok
                /\ (IsDir(p.dir, out) \/ (IsFile(p.dir, out) /\ ~Unwrap(p.dir[out]).write)) ->
                StepResult(FALSE, "Failed to create extracted file", p.dir)
          [] failure = "copy" /\ ~EntryIsDir(e) /\ p.ok
                /\ ~(IsDir(p.dir, out) \/ (IsFile(p.dir, out) /\ ~Unwrap(p.dir[out]).write)) ->
                StepResult(FALSE, "Failed to extract file",
                    [p.dir EXCEPT ![out] = Some([created EXCEPT !.content = "partial"])])
          [] OTHER ->
                StepResult(TRUE, "",
                    [p.dir EXCEPT ![out] =
                        Some(set_permissions([created EXCEPT !.content = e.content],
                                             e.mode))])

(* One member of tar::Archive::unpack: directories are created, an existing
   file is removed and the member's file created in its place with the
   member's mode *)
TarEntryStep(dir, e, failure) ==
    LET out == OutPath(e)
        d == create_dir_all(dir, out)
        p == create_dir_all(dir, Parent(out))
    IN  CASE failure = "read" -> StepResult(FALSE, "Failed to extract archive", dir)
          [] failure # "read" /\ EntryIsDir(e) /\ ~d.ok ->
                StepResult(FALSE, "Failed to extract archive", dir)
          [] failure # "read" /\ EntryIsDir(e) /\ d.ok ->
                StepResult(TRUE, "",
                    [d.dir EXCEPT ![out] = Some(set_permissions(Unwrap(@), e.mode))])
          [] failure # "read" /\ ~EntryIsDir(e) /\ (~p.ok \/ IsDir(p.dir, out)) ->
                StepResult(FALSE, "Failed to extract archive", dir)
          [] failure = "copy" /\ ~EntryIsDir(e) /\ p.ok /\ ~IsDir(p.dir, out) ->
                StepResult(FALSE, "Failed to extract archive",
                    [p.dir EXCEPT ![out] = Some([NewFile EXCEPT !.content = "partial"])])
          [] OTHER ->
                StepResult(TRUE, "",
                    [p.dir EXCEPT ![out] =
                        Some(set_permissions([NewFile EXCEPT !.content = e.content],
                                             e.mode))])

(* The members from index i on, in order, stopping at the first error *)
RECURSIVE ExtractEntries(_, _, _, _, _)
ExtractEntries(format, entries, i, dir, fail) ==
    IF i > Len(entries) THEN StepResult(TRUE, "", dir)
    ELSE LET failure == IF fail.at = i THEN fail.kind ELSE "none"
             r == IF format = "zip" THEN ZipEntryStep(dir, entries[i], failure)
                  ELSE TarEntryStep(dir, entries[i], failure)
         IN  IF r.ok THEN ExtractEntries(format, entries, i + 1, r.dir, fail) ELSE r

Extracted(r, dir) ==
    [result |-> IF r.ok THEN Ok(ExtractDirName) ELSE Err(r.err), dir |-> r.dir]

extract_zip(path, dir, fail) ==
    IF fail.kind = "open"
    THEN [result |-> Err("Failed to open archive"), dir |-> dir]
    ELSE Extracted(ExtractEntries("zip", ArchiveEntries(path), 1, dir, fail), dir)

extract_tar_gz(path, dir, fail) ==
    IF fail.kind = "open"
    THEN [result |-> Err("Failed to open archive"), dir |-> dir]
    ELSE Extracted(ExtractEntries("tar", ArchiveEntries(path), 1, dir, fail), dir)

extract_tar_xz(path, dir, fail) ==
    IF fail.kind = "open"
    THEN [result |-> Err("Failed to open archive"), dir |-> dir]
    ELSE Extracted(ExtractEntries("tar", ArchiveEntries(path), 1, dir, fail), dir)

Dispatched(name, r) == [result |-> r.result, dir |-> r.dir, extractor |-> name]

(* extract_archive_unified: the extraction directory is created, then the
   extension of the archive path selects the extractor *)
extract_archive_unified(path, dir, mkdir_ok, fail) ==
    LET extension == Extension(path)
        file_name == FileName(path)
        unsupported(msg) == [result |-> Err(msg), dir |-> dir, extractor |-> <<>>]
    IN  CASE ~mkdir_ok -> unsupported("Failed to create extract directory")
          [] mkdir_ok /\ extension = "zip" ->
                Dispatched(<<"extract_zip">>, extract_zip(path, dir, fail))
          [] mkdir_ok /\ extension = "gz" /\ Contains(file_name, ".tar.") ->
                Dispatched(<<"extract_tar_gz">>, extract_tar_gz(path, dir, fail))
          [] mkdir_ok /\ extension = "gz" /\ ~Contains(file_name, ".tar.") ->
                unsupported("Unsupported .gz format: " \o file_name)
          [] mkdir_ok /\ extension = "xz" /\ Contains(file_name, ".tar.") ->
                Dispatched(<<"extract_tar_xz">>, extract_tar_xz(path, dir, fail))
          [] mkdir_ok /\ extension = "xz" /\ ~Contains(file_name, ".tar.") ->
                unsupported("Unsupported .xz format: " \o file_name)
          [] OTHER -> unsupported("Unsupported archive format: " \o extension)

(* Calls of extract_archive_unified made in a row on one directory *)
MaxExtractions == 2

(* extract_pandoc_archive / extract_archive_unified *)
ExtractArchive(path, mkdir_ok, fail) ==
    /\ Len(extractions) < MaxExtractions
    /\ LET r == extract_archive_unified(path, extract_dir, mkdir_ok, fail)
       IN  /\ archive_path' = path
           /\ extract_dir' = r.dir
           /\ extractor' = r.extractor
           /\ extractResult' = Some(r.result)
           /\ extractions' = Append(extractions,
                 [archive_path |-> path, mkdir_ok |-> mkdir_ok,
                  extractor |-> r.extractor, ok |-> r.result.ok,
                  before |-> extract_dir, after |-> r.dir])
    /\ UNCHANGED <<platVars, dlVars, mgrVars, envVars, resVars, locVars, regVars,
                   verVars, updVars, cmdVars>>

(* What the extraction directory holds from an earlier installation *)
OldBinary == {None, Some(DiskEntry("file", "3.6", TRUE, TRUE, TRUE)),
              Some(DiskEntry("file", "3.6", FALSE, TRUE, FALSE))}
OldCopying == {None, Some(DiskEntry("file", "3.6", FALSE, TRUE, TRUE)),
               Some(DiskEntry("file", "3.6", FALSE, FALSE, TRUE))}
InitialDirs ==
    {d \in [DirNames -> OldBinary \cup OldCopying \cup {Some(NewDir)}] :
        /\ d["bin"] \in {None, Some(NewDir)}
        /\ d["bin/pandoc"] \in OldBinary
        /\ d["COPYING"] \in OldCopying
        /\ IsSome(d["bin/pandoc"]) => IsSome(d["bin"])}

InitExtract ==
    /\ archive_path = ""
    /\ extract_dir \in InitialDirs
    /\ extractor = <<>>
    /\ extractResult = None
    /\ extractions = <<>>
    /\ PlatIdle /\ DlIdle /\ MgrIdle /\ ResIdle /\ EnvEmpty
    /\ LocIdle /\ RegIdle /\ VerIdle /\ UpdIdle /\ CmdIdle

(* Extractions of the release archives into one directory, one after the
   other, with a failure at any point of any of them *)
NextExtract ==
    \E path \in ReleaseArchives :
        \/ ExtractArchive(path, TRUE, NoFailure)
        \/ ExtractArchive(path, FALSE, NoFailure)
        \/ ExtractArchive(path, TRUE, [at |-> 0, kind |-> "open"])
        \/ \E at \in 1..Len(ArchiveEntries(path)), kind \in FailureKinds :
              ExtractArchive(path, TRUE, [at |-> at, kind |-> kind])

SpecExtract == InitExtract /\ [][NextExtract]_vars

(* One extraction, of any path *)
NextDispatch ==
    \E path \in ArchivePaths, mkdir_ok \in BOOLEAN :
        extractions = <<>> /\ ExtractArchive(path, mkdir_ok, NoFailure)

SpecDispatch == InitExtract /\ [][NextDispatch]_vars

----------------------------------------------------------------------------
(* Properties of the extraction *)

LastExtraction == extractions[Len(extractions)]

(* The data of the file member of the archive that is extracted to name *)
MemberNames(path) ==
    {OutPath(ArchiveEntries(path)[i]) :
        i \in {k \in 1..Len(ArchiveEntries(path)) : ~EntryIsDir(ArchiveEntries(path)[k])}}
MemberContent(path, name) ==
    LET es == ArchiveEntries(path)
        last == CHOOSE i \in 1..Len(es) :
                    /\ OutPath(es[i]) = name /\ ~EntryIsDir(es[i])
                    /\ \A j \in (i + 1)..Len(es) : OutPath(es[j]) # name
    IN  es[last].content

(* C12: with the extraction directory in place, a path ending in .tar.gz
   goes to the gzip+tar extractor, one ending in .tar.xz to the XZ+tar
   extractor, one ending in .zip to the zip extractor, and every other path
   returns an unsupported-format error with no extractor invoked. *)
C12_ArchiveDispatch ==
    (extractions # <<>> /\ LastExtraction.mkdir_ok) =>
        /\ EndsWith(archive_path, ".tar.gz") => extractor = <<"extract_tar_gz">>
        /\ EndsWith(archive_path, ".tar.xz") => extractor = <<"extract_tar_xz">>
        /\ EndsWith(archive_path, ".zip") => extractor = <<"extract_zip">>
        /\ ( /\ ~EndsWith(archive_path, ".tar.gz")
             /\ ~EndsWith(archive_path, ".tar.xz")
             /\ ~EndsWith(archive_path, ".zip") )
              => /\ extractor = <<>>
                 /\ ~Unwrap(extractResult).ok
                 /\ Contains(Unwrap(extractResult).err, "Unsupported")

(* C13: an extraction into a directory that holds files of an earlier
   extraction either replaces every file the archive conflicts with by the
   archive's version, or fails with every such file as it was before. *)
C13_ExtractionAllOrNothing ==
    (extractions # <<>> /\ LastExtraction.extractor # <<>>) =>
        LET e == LastExtraction
            conflicts == {n \in MemberNames(e.archive_path) : IsFile(e.before, n)}
        IN  \/ \A n \in conflicts :
                  /\ IsFile(e.after, n)
                  /\ Unwrap(e.after[n]).content = MemberContent(e.archive_path, n)
            \/ /\ ~e.ok
               /\ \A n \in conflicts : e.after[n] = e.before[n]

FileSet(dir) == {n \in DirNames : IsSome(dir[n])}

(* C14: when the same zip archive is extracted into the same directory twice
   in a row and both extractions succeed, the files and directories and the
   executable bit of each are the same after the second as after the
   first. *)
C14_ZipExtractionIdempotent ==
    \A i \in 1..(Len(extractions) - 1) :
        LET first == extractions[i]
            second == extractions[i + 1]
        IN  ( /\ first.ok /\ second.ok
              /\ first.extractor = <<"extract_zip">>
              /\ second.extractor = <<"extract_zip">>
              /\ first.archive_path = second.archive_path )
            => /\ FileSet(second.after) = FileSet(first.after)
               /\ \A n \in FileSet(first.after) :
                     /\ Unwrap(second.after[n]).kind = Unwrap(first.after[n]).kind
                     /\ Unwrap(second.after[n]).exec = Unwrap(first.after[n]).exec

(* C14 witness: an archive with unix modes was extracted twice over an
   older installation whose binary the user does not own. *)
C14_Witness ==
    /\ Len(extractions) = 2
    /\ extractions[1].ok /\ extractions[2].ok
    /\ extractions[1].archive_path = "dl/pandoc-3.7.0.2-macOS.zip"
    /\ extractions[2].archive_path = "dl/pandoc-3.7.0.2-macOS.zip"
    /\ IsFile(extractions[1].before, "bin/pandoc")
    /\ ~Unwrap(extractions[1].before["bin/pandoc"]).own
    /\ Unwrap(extract_dir["bin/pandoc"]).content = "3.7.0.2"

----------------------------------------------------------------------------
(* Lookup of the managed executable (manager.rs) *)

(* The places of a managed root where an installation can put the
   executable *)
RootCandidates(base_dir) ==
    { Join(base_dir, PandocExe),
      Join(Join(base_dir, "bin"), PandocExe),
      Join(Join(base_dir, SubDirNames[1]), PandocExe),
      Join(Join(Join(base_dir, SubDirNames[1]), "bin"), PandocExe) }

ManagedCandidates == RootCandidates(ResourcePandocDir) \cup RootCandidates(PortablePandocDir)

(* PandocManager::get_executable_path of the Managed source, as called by
   check_portable_pandoc *)
GetManagedPandocPath ==
    /\ managedPath = None
    /\ managedPath' = Some(get_executable_path(NewManager(Managed), fs))
    /\ UNCHANGED <<platVars, dlVars, mgrVars, envVars, resVars, regVars, verVars,
                   arcVars, updVars, cmdVars>>

InitLocate ==
    /\ fs \in [ManagedCandidates -> {"missing", "broken", "ok"}]
    /\ pathLookup = None
    /\ PlatIdle /\ DlIdle /\ MgrIdle /\ ResIdle
    /\ LocIdle /\ RegIdle /\ VerIdle /\ ArcIdle /\ UpdIdle /\ CmdIdle

NextLocate == GetManagedPandocPath

SpecLocate == InitLocate /\ [][NextLocate]_vars

(* The candidates in the order of the claim: the resource directory before
   the application-data directory; in each the direct path, bin/, then the
   subdirectory (direct, bin/) *)
CandidateOrder ==
    << "res/pandoc/pandoc",
       "res/pandoc/bin/pandoc",
       "res/pandoc/pandoc-3.7.0.2/pandoc",
       "res/pandoc/pandoc-3.7.0.2/bin/pandoc",
       "data/pandoc-portable/pandoc",
       "data/pandoc-portable/bin/pandoc",
       "data/pandoc-portable/pandoc-3.7.0.2/pandoc",
       "data/pandoc-portable/pandoc-3.7.0.2/bin/pandoc" >>

ExistingCandidates == {i \in 1..Len(CandidateOrder) : fs[CandidateOrder[i]] # "missing"}

(* C18: the managed lookup returns the first existing candidate, the
   resource directory's candidates before the application-data directory's
   and in each root the direct path, bin/, then the subdirectory's direct
   path and bin/; it returns none exactly when no candidate exists. *)
C18_ManagedLookupOrder ==
    IsSome(managedPath) =>
        LET found == Unwrap(managedPath)
        IN  /\ found = None <=> ExistingCandidates = {}
            /\ IsSome(found) =>
                  \E i \in ExistingCandidates :
                      /\ Unwrap(found) = CandidateOrder[i]
                      /\ \A j \in ExistingCandidates : i <= j

(* C18 witness: the deepest candidate of the resource directory won over
   the direct path of the application-data directory. *)
C18_Witness ==
    /\ IsSome(managedPath)
    /\ Unwrap(managedPath) = Some("res/pandoc/pandoc-3.7.0.2/bin/pandoc")
    /\ fs["data/pandoc-portable/pandoc"] = "ok"

----------------------------------------------------------------------------
(* Properties of the discovery sweep *)

DiscoverDone == mgrPc = "done" /\ mgrOp = "discover_pandoc_sources"

(* The executable a manager's source resolves to runs its version probe *)
SourceWorks(m) ==
    IF m.source.kind = "Managed" THEN ManagedValid ELSE fs[m.source.path] = "ok"

(* The sweep starts with one unvalidated Managed manager followed by one
   unvalidated System manager per search path that exists and is
   executable, in search-path order *)
SweepStarts ==
    (mgrPc = "idle" /\ mgrPc' = "discover") =>
        LET sp == get_search_paths(pathLookup)
        IN  /\ sources'[1] = NewManager(Managed)
            /\ \A i \in 2..Len(sources') :
                  /\ sources'[i].source.kind = "System"
                  /\ sources'[i] = NewManager(sources'[i].source)
                  /\ \E k \in 1..Len(sp) : sp[k] = sources'[i].source.path
                  /\ \A j \in 2..(i - 1) :
                        \E k, l \in 1..Len(sp) :
                            /\ k < l
                            /\ sp[k] = sources'[j].source.path
                            /\ sp[l] = sources'[i].source.path
            /\ \A k \in 1..Len(sp) :
                  fs[sp[k]] \in {"broken", "ok"}
                      <=> \E i \in 2..Len(sources') : sources'[i].source = System(sp[k])

(* A validation of the sweep decides its own manager from that manager's
   executable alone and leaves the sequence and every other manager as they
   were *)
SweepValidates ==
    (mgrPc = "discover" /\ nvalidate' # nvalidate) =>
        /\ Len(sources') = Len(sources)
        /\ \A i \in 1..Len(sources) :
              /\ sources'[i].source = sources[i].source
              /\ i # mgrIdx => sources'[i] = sources[i] /\ nvalidate'[i] = nvalidate[i]
        /\ nvalidate'[mgrIdx] = nvalidate[mgrIdx] + 1
        /\ sources'[mgrIdx].available <=> SourceWorks(sources[mgrIdx])
        /\ mgrPc' \in {"discover", "best", "done"}

SweepReturned ==
    DiscoverDone =>
        /\ Len(sources) >= 1
        /\ Cardinality({i \in 1..Len(sources) : sources[i].source.kind = "Managed"}) = 1
        /\ \A i \in 1..Len(sources) :
              /\ nvalidate[i] >= 1
              /\ ~sources[i].available => sources[i].info = None
              /\ sources[i].available => IsSome(sources[i].info)

(* C19: discover_pandoc_sources returns one Managed manager followed by one
   System manager per distinct search path that exists and is executable, in
   search-path order; every returned manager has been validated; a manager
   whose validation failed is returned unavailable with no info; and no
   validation failure ends the sweep or changes another manager. *)
C19_DiscoverNeverAborts ==
    /\ []SweepReturned
    /\ [][SweepStarts]_vars
    /\ [][SweepValidates]_vars

(* C19 witness: a sweep returned three managers of which the first System
   manager failed its validation and the one after it passed. *)
C19_Witness ==
    /\ DiscoverDone
    /\ Len(sources) = 3
    /\ ~sources[2].available
    /\ sources[2].info = None
    /\ sources[3].available

----------------------------------------------------------------------------
(* Update and install commands (manager.rs, pandoc.rs) *)

(* The asynchronous commands that download into a managed root and extract
   there; each invocation is a task of the runtime *)
UpdateOps ==
    {"update_managed_pandoc", "update_bundled_pandoc", "install_portable_pandoc",
     "update_managed_typst"}

(* The directory the command downloads to and extracts into *)
UpdateRoot(op) ==
    CASE op \in {"update_managed_pandoc", "update_bundled_pandoc"} -> ResourcePandocDir
      [] op = "install_portable_pandoc" -> PortablePandocDir
      [] OTHER -> "res/typst"

(* The text of the success message before the version *)
UpdateMessage(op) ==
    CASE op \in {"update_managed_pandoc", "update_bundled_pandoc"} ->
            "Successfully updated managed pandoc to version "
      [] op = "install_portable_pandoc" -> "Successfully installed portable Pandoc "
      [] OTHER -> "Successfully updated managed typst to version "

UpdateRepo(op) == IF op = "update_managed_typst" THEN TYPST_REPO ELSE PANDOC_REPO

Tasks == {"t1", "t2"}

IdleTask == [op |-> "", root |-> "", pc |-> "idle", version |-> "", result |-> None]

(* The command is invoked: it awaits the latest release *)
InvokeUpdate(t, op) ==
    /\ updTasks[t].pc = "idle"
    /\ updTasks' = [updTasks EXCEPT ![t] =
            [op |-> op, root |-> UpdateRoot(op), pc |-> "release", version |-> "",
             result |-> None]]
    /\ UNCHANGED <<platVars, dlVars, mgrVars, envVars, resVars, locVars, regVars,
                   verVars, arcVars, cmdVars>>

(* The release arrives: on an error the command returns it; else the root is
   created and the download into it starts *)
ReleaseReturns(t, api) ==
    /\ updTasks[t].pc = "release"
    /\ LET latest == get_latest_release(UpdateRepo(updTasks[t].op), api)
       IN  updTasks' = [updTasks EXCEPT ![t] =
                IF latest.ok
                THEN [@ EXCEPT !.pc = "download", !.version = latest.val.tag_name]
                ELSE [@ EXCEPT !.pc = "done", !.result = Some(Err(latest.err))]]
    /\ UNCHANGED <<platVars, dlVars, mgrVars, envVars, resVars, locVars, regVars,
                   verVars, arcVars, cmdVars>>

(* download_tool returns: on an error the command returns it; else the
   extraction of the downloaded archive into the root starts *)
DownloadReturns(t, ok) ==
    /\ updTasks[t].pc = "download"
    /\ updTasks' = [updTasks EXCEPT ![t] =
            IF ok THEN [@ EXCEPT !.pc = "extract"]
            ELSE [@ EXCEPT !.pc = "done",
                           !.result = Some(Err("All download mirrors failed"))]]
    /\ UNCHANGED <<platVars, dlVars, mgrVars, envVars, resVars, locVars, regVars,
                   verVars, arcVars, cmdVars>>

(* extract_archive_unified returns, and the command with it *)
ExtractReturns(t, ok) ==
    /\ updTasks[t].pc = "extract"
    /\ updTasks' = [updTasks EXCEPT ![t] =
            [@ EXCEPT !.pc = "done",
                      !.result = IF ok THEN Some(Ok(UpdateMessage(updTasks[t].op)
                                                    \o updTasks[t].version))
                                 ELSE Some(Err("Failed to extract file"))]]
    /\ UNCHANGED <<platVars, dlVars, mgrVars, envVars, resVars, locVars, regVars,
                   verVars, arcVars, cmdVars>>

(* The result is delivered and the task ends *)
UpdateDelivered(t) ==
    /\ updTasks[t].pc = "done"
    /\ updTasks' = [updTasks EXCEPT ![t] = IdleTask]
    /\ UNCHANGED <<platVars, dlVars, mgrVars, envVars, resVars, locVars, regVars,
                   verVars, arcVars, cmdVars>>

InitUpdate ==
    /\ updTasks = [t \in Tasks |-> IdleTask]
    /\ PlatIdle /\ DlIdle /\ MgrIdle /\ ResIdle /\ EnvEmpty
    /\ LocIdle /\ RegIdle /\ VerIdle /\ ArcIdle /\ CmdIdle

NextUpdate ==
    \E t \in Tasks :
        \/ \E op \in UpdateOps : InvokeUpdate(t, op)
        \/ \E api \in ApiOutcomes : ReleaseReturns(t, api)
        \/ \E ok \in BOOLEAN : DownloadReturns(t, ok)
        \/ \E ok \in BOOLEAN : ExtractReturns(t, ok)
        \/ UpdateDelivered(t)

SpecUpdate == InitUpdate /\ [][NextUpdate]_vars

(* The task is between the start of its download and the end of its
   extraction *)
WritesRoot(t) == updTasks[t].pc \in {"download", "extract"}

(* C20: while one update or install is between the start of its download
   and the end of its extraction into a managed root, no other update or
   install writes into the same root. *)
C20_UpdatesNeverOverlap ==
    \A t1, t2 \in Tasks :
        (t1 # t2 /\ WritesRoot(t1) /\ WritesRoot(t2))
            => updTasks[t1].root # updTasks[t2].root

----------------------------------------------------------------------------
(* First valid system executable (pandoc.rs get_pandoc_path) *)

(* pandoc::get_pandoc_path: the first of the detected paths, or an error
   when none was detected *)
get_pandoc_path(f, lookup) ==
    LET detected_paths == find_all_pandoc_paths(f, lookup)
    IN  IF detected_paths = <<>>
        THEN Err("Pandoc not found in any common locations")
        ELSE Ok(detected_paths[1])

GetPandocPath ==
    /\ resolveCall = None
    /\ resolveCall' = Some([op |-> "get_pandoc_path", custom_path |-> None])
    /\ resolveResult' = Some(get_pandoc_path(fs, pathLookup))
    /\ UNCHANGED <<platVars, dlVars, mgrVars, envVars,
                   locVars, regVars, verVars, arcVars, updVars, cmdVars>>

InitFind == InitResolve

NextFind == GetPandocPath

SpecFind == InitFind /\ [][NextFind]_vars

(* Positions of the search paths that exist and whose probe exits with
   success *)
QualifyingPositions ==
    LET sp == get_search_paths(pathLookup)
    IN  {i \in 1..Len(sp) : sp[i] \in DOMAIN fs /\ fs[sp[i]] = "ok"}

FindDone == IsSome(resolveCall) /\ Unwrap(resolveCall).op = "get_pandoc_path"

(* C21: the path found is the first of the search paths, in search order,
   that exists and whose version probe exits successfully, and nothing is
   found when no path qualifies; validating a missing file, a file that
   cannot be spawned or one whose probe exits with a failure gives false. *)
C21_FindFirstValid ==
    /\ FindDone =>
        LET sp == get_search_paths(pathLookup)
            r == Unwrap(resolveResult)
        IN  IF QualifyingPositions = {} THEN ~r.ok
            ELSE /\ r.ok
                 /\ \E i \in QualifyingPositions :
                        /\ r.val = sp[i]
                        /\ \A j \in QualifyingPositions : i <= j
    /\ \A path \in DOMAIN fs :
            fs[path] \in {"missing", "noexec", "broken"}
                => utils_validate_pandoc_executable(fs, path) = FALSE

(* The first search path exists but fails the probe, and the second is
   returned *)
C21_Witness ==
    /\ FindDone
    /\ Unwrap(resolveResult).ok
    /\ LET sp == get_search_paths(pathLookup)
       IN  /\ fs[sp[1]] \in {"noexec", "broken"}
           /\ Unwrap(resolveResult).val = sp[2]

----------------------------------------------------------------------------
(* Search paths (utils.rs, lib.rs) *)

(* What the PATH lookup (`which pandoc`) did: whether it spawned, its exit
   status, whether its standard output is UTF-8, and that output *)
WhichOutput(spawned, success, utf8, stdout) ==
    [spawned |-> spawned, success |-> success, utf8 |-> utf8, stdout |-> stdout]

WhichStdouts ==
    { "", "/usr/bin/pandoc\n", "/usr/local/bin/pandoc\n", "/opt/homebrew/bin/pandoc\n",
      "/home/u/.local/bin/pandoc\n", "/home/u/.cabal/bin/pandoc\n",
      "/snap/bin/pandoc\n", " /usr/bin/pandoc \r\n",
      "/usr/local/bin/pandoc\n/usr/bin/pandoc\n", "/snap/bin/pandoc\n/usr/bin/pandoc\n" }

WhichOutputs ==
    { WhichOutput(TRUE, TRUE, TRUE, out) : out \in WhichStdouts }
        \cup { WhichOutput(FALSE, FALSE, TRUE, ""),
               WhichOutput(TRUE, FALSE, TRUE, ""),
               WhichOutput(TRUE, FALSE, TRUE, "/usr/bin/pandoc\n"),
               WhichOutput(TRUE, TRUE, FALSE, "/usr/bin/pandoc\n") }

(* env::var("HOME") *)
Homes == {None, Some("/home/u")}

SearchOSes == {"linux", "macos"}

get_path_pandoc_internal(which) ==
    IF which.spawned /\ which.success
    THEN IF ~which.utf8 THEN Err("Failed to read path output")
         ELSE LET line == FirstLine(which.stdout)
              IN  Ok(Trim(IF IsSome(line) THEN Unwrap(line) ELSE ""))
    ELSE Err("Not found in PATH")

get_macos_common_paths(home) ==
    <<"/usr/local/bin/pandoc", "/opt/homebrew/bin/pandoc">>
        \o (IF IsSome(home)
            THEN << Unwrap(home) \o "/Library/Haskell/bin/pandoc",
                    Unwrap(home) \o "/.local/bin/pandoc",
                    Unwrap(home) \o "/.cabal/bin/pandoc" >>
            ELSE <<>>)
        \o <<"/usr/bin/pandoc", "/usr/local/bin/pandoc">>

(* get_linux_common_paths with HOME as given *)
linux_common_paths(home) ==
    <<"/usr/bin/pandoc", "/usr/local/bin/pandoc">>
        \o (IF IsSome(home)
            THEN << Unwrap(home) \o "/.local/bin/pandoc",
                    Unwrap(home) \o "/.cabal/bin/pandoc" >>
            ELSE <<>>)

common_paths(target_os, home) ==
    IF target_os = "macos" THEN get_macos_common_paths(home)
    ELSE linux_common_paths(home)

(* The paths pushed for the PATH lookup *)
PathPart(which) ==
    LET path_pandoc == get_path_pandoc_internal(which)
    IN  IF path_pandoc.ok THEN <<path_pandoc.val>> ELSE <<>>

(* utils::get_search_paths: a common path is pushed unless already contained *)
utils_get_search_paths(target_os, home, which) ==
    PushMissing(PathPart(which), common_paths(target_os, home))

(* lib.rs get_search_paths: the common paths are appended with extend *)
lib_get_search_paths(target_os, home, which) ==
    PathPart(which) \o common_paths(target_os, home)

SearchCall(op, target_os, home, which) ==
    [op |-> op, target_os |-> target_os, home |-> home, which |-> which]

UtilsGetSearchPaths(target_os, home, which) ==
    /\ cmdCall = None
    /\ cmdCall' = Some(SearchCall("utils::get_search_paths", target_os, home, which))
    /\ cmdResult' = Some(utils_get_search_paths(target_os, home, which))
    /\ UNCHANGED <<platVars, dlVars, mgrVars, envVars, resVars, locVars, regVars,
                   verVars, arcVars, updVars>>

LibGetSearchPaths(target_os, home, which) ==
    /\ cmdCall = None
    /\ cmdCall' = Some(SearchCall("get_search_paths", target_os, home, which))
    /\ cmdResult' = Some(lib_get_search_paths(target_os, home, which))
    /\ UNCHANGED <<platVars, dlVars, mgrVars, envVars, resVars, locVars, regVars,
                   verVars, arcVars, updVars>>

InitSearch ==
    /\ CmdIdle
    /\ PlatIdle /\ DlIdle /\ MgrIdle /\ ResIdle /\ EnvEmpty
    /\ LocIdle /\ RegIdle /\ VerIdle /\ ArcIdle /\ UpdIdle

NextSearch ==
    \E target_os \in SearchOSes, home \in Homes, which \in WhichOutputs :
        \/ UtilsGetSearchPaths(target_os, home, which)
        \/ LibGetSearchPaths(target_os, home, which)

SpecSearch == InitSearch /\ [][NextSearch]_vars

(* The elements of the sequence at their first occurrence, in order *)
FirstOccurrences(seq) ==
    LET idx == {k \in 1..Len(seq) : \A j \in 1..(k - 1) : seq[j] # seq[k]}
    IN  [n \in 1..Cardinality(idx) |->
            seq[CHOOSE k \in idx : Cardinality({j \in idx : j <= k}) = n]]

(* C22: the search paths are the PATH lookup result (only when the lookup
   succeeded, and only its first line) followed by the platform's well-known
   locations in their fixed order, and no path occurs twice: a well-known
   location equal to the lookup result or to an earlier one is omitted. *)
C22_SearchPathsDistinct ==
    IsSome(cmdCall) =>
        LET c == Unwrap(cmdCall)
            r == Unwrap(cmdResult)
            looked == c.which.spawned /\ c.which.success /\ c.which.utf8
            first == IF looked
                     THEN <<Trim(SubSeq(c.which.stdout, 1,
                                 (CHOOSE n \in 0..Len(c.which.stdout) :
                                    /\ \A i \in 1..n : CharAt(c.which.stdout, i) # "\n"
                                    /\ (n = Len(c.which.stdout)
                                        \/ CharAt(c.which.stdout, n + 1) = "\n"))))>>
                     ELSE <<>>
        IN  /\ \A i, j \in 1..Len(r) : i # j => r[i] # r[j]
            /\ r = FirstOccurrences(first \o common_paths(c.target_os, c.home))

----------------------------------------------------------------------------
(* Format probing (pandoc.rs get_supported_formats, manager.rs validate) *)

fallback_input_formats ==
    << "biblatex", "bibtex", "bits", "commonmark", "commonmark_x", "creole",
       "csljson", "csv", "djot", "docbook", "docx", "dokuwiki", "endnotexml",
       "epub", "fb2", "gfm", "haddock", "html", "ipynb", "jats", "jira",
       "json", "latex", "man", "markdown", "markdown_github", "markdown_mmd",
       "markdown_phpextra", "markdown_strict", "mdoc", "mediawiki", "muse",
       "native", "odt", "opml", "org", "pod", "ris", "rst", "rtf", "t2t",
       "textile", "tikiwiki", "tsv", "twiki", "typst", "vimwiki" >>

fallback_output_formats ==
    << "ansi", "asciidoc", "asciidoc_legacy", "asciidoctor", "beamer",
       "biblatex", "bibtex", "chunkedhtml", "commonmark", "commonmark_x",
       "context", "csljson", "djot", "docbook", "docbook4", "docbook5",
       "docx", "dokuwiki", "dzslides", "epub", "epub2", "epub3", "fb2",
       "gfm", "haddock", "html", "html4", "html5", "icml", "ipynb", "jats",
       "jats_archiving", "jats_articleauthoring", "jats_publishing", "jira",
       "json", "latex", "man", "markdown", "markdown_github", "markdown_mmd",
       "markdown_phpextra", "markdown_strict", "markua", "mediawiki",
       "ms", "muse", "native", "odt", "opendocument", "opml", "org", "pdf",
       "plain", "pptx", "revealjs", "rst", "rtf", "s5", "slideous", "slidy",
       "tei", "texinfo", "textile", "typst", "xwiki", "zimwiki" >>

(* str::lines: the text between line feeds, each without a trailing carriage
   return; a final line feed ends the last line *)
RECURSIVE Lines(_)
Lines(s) ==
    IF Len(s) = 0 THEN <<>>
    ELSE LET nl == FirstTrue([i \in 1..Len(s) |-> CharAt(s, i) = "\n"])
         IN  <<Unwrap(FirstLine(s))>>
                \o (IF nl = 0 THEN <<>> ELSE Lines(DropChars(s, nl)))

(* .lines().map(trim).filter(not empty).collect() *)
FormatLines(content) ==
    LET trimmed == [i \in 1..Len(Lines(content)) |-> Trim(Lines(content)[i])]
    IN  SelectSeq(trimmed, LAMBDA l : Len(l) > 0)

(* One `pandoc --list-..-formats` invocation: whether it spawned, its exit
   status, whether its standard output is UTF-8, and that output *)
ListProbe(spawned, success, utf8, stdout) ==
    [spawned |-> spawned, success |-> success, utf8 |-> utf8, stdout |-> stdout]

ListStdouts ==
    {"", "markdown\nhtml\ndocx\n", "html\r\n docx \n\npdf\n", "native", "\n"}

ListProbes ==
    { ListProbe(TRUE, TRUE, TRUE, out) : out \in ListStdouts }
        \cup { ListProbe(FALSE, FALSE, TRUE, ""),
               ListProbe(TRUE, FALSE, TRUE, "markdown\n"),
               ListProbe(TRUE, TRUE, FALSE, "markdown\n") }

(* .output().ok().and_then(..).unwrap_or_else(|| fallback.clone()) *)
probe_formats(probe, fallback) ==
    LET parsed == IF probe.spawned
                  THEN IF probe.success
                       THEN IF probe.utf8 THEN Some(FormatLines(probe.stdout)) ELSE None
                       ELSE None
                  ELSE None
    IN  IF IsSome(parsed) THEN Unwrap(parsed) ELSE fallback

(* Mutant: one failed probe makes both lists fall back *)
get_supported_formats_SharedFallback(input_probe, output_probe) ==
    LET good(p) == p.spawned /\ p.success /\ p.utf8
    IN  IF good(input_probe) /\ good(output_probe)
        THEN Ok(<<FormatLines(input_probe.stdout), FormatLines(output_probe.stdout)>>)
        ELSE Ok(<<fallback_input_formats, fallback_output_formats>>)

get_supported_formats(input_probe, output_probe) ==
    Ok(<< probe_formats(input_probe, fallback_input_formats),
          probe_formats(output_probe, fallback_output_formats) >>)

(* The lists validate_pandoc_executable falls back to when
   get_supported_formats returns an error *)
basic_formats == << <<"markdown", "html", "docx">>, <<"html", "pdf", "docx">> >>

(* manager::validate_pandoc_executable after a successful version probe: the
   format lists of the PandocInfo it returns, and whether they are the basic
   ones of the unwrap_or_else *)
validate_formats(path, input_probe, output_probe) ==
    LET r == get_supported_formats(input_probe, output_probe)
        formats == IF r.ok THEN r.val ELSE basic_formats
    IN  Ok([path |-> path, is_working |-> TRUE,
            supported_input_formats |-> formats[1],
            supported_output_formats |-> formats[2],
            basic_fallback |-> ~r.ok])

FormatCall(op, input_probe, output_probe) ==
    [op |-> op, input_probe |-> input_probe, output_probe |-> output_probe]

GetSupportedFormats(input_probe, output_probe) ==
    /\ cmdCall = None
    /\ cmdCall' = Some(FormatCall("get_supported_formats", input_probe, output_probe))
    /\ cmdResult' = Some(get_supported_formats(input_probe, output_probe))
    /\ UNCHANGED <<platVars, dlVars, mgrVars, envVars, resVars, locVars, regVars,
                   verVars, arcVars, updVars>>

ValidateFormats(input_probe, output_probe) ==
    /\ cmdCall = None
    /\ cmdCall' = Some(FormatCall("validate_pandoc_executable", input_probe,
                                  output_probe))
    /\ cmdResult' = Some(validate_formats("/usr/bin/pandoc", input_probe, output_probe))
    /\ UNCHANGED <<platVars, dlVars, mgrVars, envVars, resVars, locVars, regVars,
                   verVars, arcVars, updVars>>

InitFormats == InitSearch

NextFormats ==
    \E input_probe \in ListProbes, output_probe \in ListProbes :
        \/ GetSupportedFormats(input_probe, output_probe)
        \/ ValidateFormats(input_probe, output_probe)

SpecFormats == InitFormats /\ [][NextFormats]_vars

ProbeGood(p) == p.spawned /\ p.success /\ p.utf8

(* The list one tier must give: the probe's own lines when the probe is
   good, else the tier's full list *)
TierFormats(p, full) == IF ProbeGood(p) THEN FormatLines(p.stdout) ELSE full

(* C23: each of the two format lists comes from its own probe when that
   probe spawns, exits successfully and prints UTF-8, and is the tier's full
   hard-coded list otherwise, whatever the other probe did; the operation
   never returns an error, so validate stays successful and never uses its
   three-entry lists. *)
C23_FormatTiersIndependent ==
    IsSome(cmdCall) =>
        LET c == Unwrap(cmdCall)
            r == Unwrap(cmdResult)
            ins == TierFormats(c.input_probe, fallback_input_formats)
            outs == TierFormats(c.output_probe, fallback_output_formats)
        IN  /\ r.ok
            /\ c.op = "get_supported_formats" => r.val = <<ins, outs>>
            /\ c.op = "validate_pandoc_executable" =>
                    /\ r.val.is_working
                    /\ ~r.val.basic_fallback
                    /\ r.val.supported_input_formats = ins
                    /\ r.val.supported_output_formats = outs

(* The input probe failed and the output probe printed its own list *)
C23_Witness ==
    /\ IsSome(cmdCall)
    /\ ~ProbeGood(Unwrap(cmdCall).input_probe)
    /\ ProbeGood(Unwrap(cmdCall).output_probe)
    /\ Unwrap(cmdCall).op = "validate_pandoc_executable"
    /\ Unwrap(cmdResult).val.supported_input_formats = fallback_input_formats
    /\ Unwrap(cmdResult).val.supported_output_formats = <<"html", "docx", "pdf">>

----------------------------------------------------------------------------
(* Download followed by extraction (manager.rs update_managed_pandoc) *)

(* The match of extract_archive_unified on the extension of the archive
   path: whether some extractor is invoked for it *)
SupportedArchive(path) ==
    \/ Extension(path) = "zip"
    \/ Extension(path) \in {"gz", "xz"} /\ Contains(FileName(path), ".tar.")

DownloadSucceeded == dlPc = "done" /\ IsSome(dlResult) /\ Unwrap(dlResult).ok

(* C24: the asset the download step selected, once downloaded, has a file
   name that extraction accepts (.zip, .tar.gz or .tar.xz), so that the
   extraction step does not fail with an unsupported format. *)
C24_DownloadedAssetExtractable ==
    DownloadSucceeded =>
        /\ \/ EndsWith(Unwrap(selected).name, ".zip")
           \/ EndsWith(Unwrap(selected).name, ".tar.gz")
           \/ EndsWith(Unwrap(selected).name, ".tar.xz")
        /\ SupportedArchive(Unwrap(dlResult).val)

----------------------------------------------------------------------------
(* Update of the managed root, then resolution of the Managed source
   (manager.rs update_managed_pandoc, find_pandoc_in_directory) *)

OldVersion == "3.6"
NewTag == "3.7.0.2"

(* Where an archive of a release puts the executable below the extraction
   directory: at bin/, in a directory named after the release, or in its
   bin/ *)
ArchiveLayouts == {"bin", "versioned", "versioned-bin"}

ArchiveExecutable(tag, layout) ==
    CASE layout = "bin" -> "bin/pandoc"
      [] layout = "versioned" -> "pandoc-" \o tag \o "/pandoc"
      [] OTHER -> "pandoc-" \o tag \o "/bin/pandoc"

(* The places of an executable below the managed root, relative to it *)
RootFiles ==
    { "pandoc", "bin/pandoc", "pandoc-3.6/pandoc", "pandoc-3.6/bin/pandoc",
      "pandoc-3.7.0.2/pandoc", "pandoc-3.7.0.2/bin/pandoc" }

RootPath(name) == Join(ResourcePandocDir, name)

(* The directories of the root that hold a file, other than bin *)
VersionDirs(f) ==
    { d \in {"pandoc-3.6", "pandoc-3.7.0.2"} :
        \E name \in RootFiles :
            /\ Len(name) > Len(d) /\ SubSeq(name, 1, Len(d) + 1) = d \o "/"
            /\ Exists(f, RootPath(name)) }

(* The orders in which read_dir can list the directories *)
ReadDirOrders(f) ==
    { s \in UNION { [1..n -> VersionDirs(f)] : n \in 0..2 } :
        /\ Len(s) = Cardinality(VersionDirs(f))
        /\ \A i, j \in 1..Len(s) : i # j => s[i] # s[j] }

(* find_pandoc_in_directory with read_dir listing `entries`: the direct
   candidates, then the two candidates of each listed directory (those of
   bin are the second direct candidate and bin/bin, which no archive has) *)
find_pandoc_in_listing(f, base_dir, exe_name, entries) ==
    LET direct == << Join(base_dir, exe_name), Join(Join(base_dir, "bin"), exe_name) >>
        sub(d) == << Join(Join(base_dir, d), exe_name),
                     Join(Join(Join(base_dir, d), "bin"), exe_name) >>
        RECURSIVE nested(_)
        nested(ds) == IF ds = <<>> THEN <<>> ELSE sub(Head(ds)) \o nested(Tail(ds))
    IN  FirstExisting(f, direct \o nested(entries))

(* update_managed_pandoc succeeding with the release `tag`: the archive is
   extracted over the root *)
UpdateManagedPandoc(tag, layout) ==
    /\ cmdCall = None
    /\ cmdCall' = Some([op |-> "update_managed_pandoc", version |-> tag,
                        layout |-> layout, before |-> fs])
    /\ fs' = [fs EXCEPT ![RootPath(ArchiveExecutable(tag, layout))] = tag]
    /\ cmdResult' = Some(Ok("Successfully updated managed pandoc to version " \o tag))
    /\ UNCHANGED <<pathLookup, platVars, dlVars, mgrVars, resVars, locVars, regVars,
                   verVars, arcVars, updVars>>

(* The Managed source is resolved again *)
ResolveManaged(entries) ==
    /\ cmdCall # None
    /\ managedPath = None
    /\ managedPath' = Some(find_pandoc_in_listing(fs, ResourcePandocDir, PandocExe,
                                                  entries))
    /\ UNCHANGED <<platVars, dlVars, mgrVars, envVars, resVars, regVars,
                   verVars, arcVars, updVars, cmdVars>>

InitReinstall ==
    /\ fs \in { f \in [{RootPath(n) : n \in RootFiles} -> {"missing", OldVersion}] :
                  \A n \in {"pandoc-3.7.0.2/pandoc", "pandoc-3.7.0.2/bin/pandoc"} :
                      f[RootPath(n)] = "missing" }
    /\ pathLookup = None
    /\ PlatIdle /\ DlIdle /\ MgrIdle /\ ResIdle
    /\ LocIdle /\ RegIdle /\ VerIdle /\ ArcIdle /\ UpdIdle /\ CmdIdle

NextReinstall ==
    \/ \E layout \in ArchiveLayouts : UpdateManagedPandoc(NewTag, layout)
    \/ \E entries \in ReadDirOrders(fs) : ResolveManaged(entries)

SpecReinstall == InitReinstall /\ [][NextReinstall]_vars

(* C25: after an update to tag T of a root that held an older extracted
   version, resolving the Managed source gives the executable this update
   installed, of version T. *)
C25_ResolvesUpdatedExecutable ==
    ( /\ IsSome(cmdCall)
      /\ IsSome(managedPath)
      /\ \E p \in DOMAIN Unwrap(cmdCall).before :
            Unwrap(cmdCall).before[p] = OldVersion )
    => /\ IsSome(Unwrap(managedPath))
       /\ fs[Unwrap(Unwrap(managedPath))] = Unwrap(cmdCall).version
       /\ Unwrap(Unwrap(managedPath))
            = RootPath(ArchiveExecutable(Unwrap(cmdCall).version, Unwrap(cmdCall).layout))

----------------------------------------------------------------------------
(* Validation of the Managed source over the managed locations *)

InitManaged == InitLocate

(* A caller creates the Managed manager and validates it *)
NextManaged ==
    \/ CreateManager(Managed)
    \/ ValidateManager
    \/ ManagerReturn

SpecManaged == InitManaged /\ [][NextManaged]_vars

ManagedValidated ==
    /\ mgrPc = "single"
    /\ nvalidate[1] >= 1
    /\ sources[1].source.kind = "Managed"

(* C26 as stated: the Managed manager is Available after validate whenever
   some managed location holds an executable that passes the version probe,
   even if an earlier-ranked candidate exists and fails it. *)
C26_AvailableIfAnyCandidateWorks ==
    (ManagedValidated /\ \E p \in ManagedCandidates : fs[p] = "ok")
        => sources[1].available

(* C26 amended: the Managed manager is Available after validate exactly
   when the first managed candidate that exists, in lookup order, passes the
   version probe. *)
C26_AvailableIffFirstExistingWorks ==
    ManagedValidated =>
        ( sources[1].available
            <=> \E i \in ExistingCandidates :
                    /\ fs[CandidateOrder[i]] = "ok"
                    /\ \A j \in ExistingCandidates : i <= j )

(* The candidates of the resource directory are missing, the first one of
   the application-data directory works, a later one is broken *)
C26_Witness ==
    /\ ManagedValidated
    /\ sources[1].available
    /\ Unwrap(sources[1].info).path = "data/pandoc-portable/pandoc"
    /\ fs["data/pandoc-portable/bin/pandoc"] = "broken"

----------------------------------------------------------------------------
(* What a failed download leaves on disk *)

(* The destination file is as a call finds it: not there, or the file of an
   earlier download; File::create makes it empty, write_all fills it *)
FileUntouched == destFile \in {"absent", "stale"}

(* C27: after a failed mirror attempt, and when the download returns an
   error, the file at target_dir/asset.name is as it was before the call:
   none appeared, and one that was there was not truncated. *)
C27_FailedDownloadLeavesFiles ==
    /\ (attempts # <<>> /\ Failed(LastAttempt)) => FileUntouched
    /\ (dlPc = "done" /\ IsSome(dlResult) /\ ~Unwrap(dlResult).ok /\ attempts # <<>>)
            => FileUntouched

----------------------------------------------------------------------------
(* Output paths of zip extraction (manager.rs extract_zip) *)

(* The components of a path, split at "/" *)
RECURSIVE SplitPath(_)
SplitPath(s) ==
    LET slash == FirstTrue([i \in 1..Len(s) |-> CharAt(s, i) = "/"])
    IN  IF slash = 0 THEN <<s>>
        ELSE <<SubSeq(s, 1, slash - 1)>> \o SplitPath(DropChars(s, slash))

IsAbsolute(path) == Len(path) > 0 /\ CharAt(path, 1) = "/"

(* PathBuf::join: an absolute argument replaces the base *)
PathJoin(base, name) == IF IsAbsolute(name) THEN name ELSE base \o "/" \o name

(* The directory entries the system walks for an absolute path: "." and
   empty components stay, ".." goes to the parent, the root's parent is the
   root *)
RECURSIVE Walk(_, _)
Walk(at, parts) ==
    IF parts = <<>> THEN at
    ELSE LET c == Head(parts)
         IN  Walk(CASE c \in {"", "."} -> at
                    [] c = ".." -> IF at = <<>> THEN at ELSE SubSeq(at, 1, Len(at) - 1)
                    [] OTHER -> Append(at, c),
                  Tail(parts))

(* The file or directory an absolute path names *)
Resolved(path) == Walk(<<>>, SplitPath(path))

(* The managed root as the resource directory gives it *)
ZipTargetDir == "/opt/app/pandoc"

(* Names of members of zip archives, as stored in the archive *)
ZipMemberNames ==
    { "pandoc", "bin/pandoc", "bin/", "pandoc-3.7.0.2/bin/pandoc", "./COPYING",
      "bin/../COPYING", "../pandoc", "bin/../../../etc/passwd", "/usr/bin/pandoc",
      "../pandoc-portable/" }

(* Archives of one or two members *)
ZipArchives ==
    { <<n>> : n \in ZipMemberNames }
        \cup { <<n1, n2>> : n1 \in ZipMemberNames, n2 \in ZipMemberNames }

(* let outpath = extract_dir.join(file.name()) *)
zip_outpath(target_dir, name) == PathJoin(target_dir, name)

(* extract_zip without I/O errors: what each member creates or overwrites,
   a directory for a name ending in "/" and a file otherwise *)
zip_written(target_dir, names) ==
    { Resolved(zip_outpath(target_dir, names[i])) : i \in 1..Len(names) }

ExtractZip(names) ==
    /\ cmdCall = None
    /\ cmdCall' = Some([op |-> "extract_zip", archive |-> names,
                        extract_dir |-> ZipTargetDir])
    /\ cmdResult' = Some([result |-> Ok(ZipTargetDir),
                          written |-> zip_written(ZipTargetDir, names)])
    /\ UNCHANGED <<platVars, dlVars, mgrVars, envVars, resVars, locVars, regVars,
                   verVars, arcVars, updVars>>

InitZipPaths == InitSearch

NextZipPaths == \E names \in ZipArchives : ExtractZip(names)

SpecZipPaths == InitZipPaths /\ [][NextZipPaths]_vars

(* The resolved path lies in the directory or is the directory *)
Inside(parts, dir) ==
    LET d == Resolved(dir)
    IN  Len(parts) >= Len(d) /\ SubSeq(parts, 1, Len(d)) = d

(* C28: every file or directory that zip extraction creates or overwrites
   lies inside the target directory, also for member names that are absolute
   or contain ".." components. *)
C28_ZipStaysInTarget ==
    (IsSome(cmdCall) /\ Unwrap(cmdCall).op = "extract_zip") =>
        \A parts \in Unwrap(cmdResult).written :
            Inside(parts, Unwrap(cmdCall).extract_dir)

----------------------------------------------------------------------------
(* Release listing with a limit (manager.rs get_pandoc_releases) *)

(* A listing longer than the default limit *)
LongListing ==
    [i \in 1..11 |->
        [tag |-> Some(<<"3.7.0.2", "3.7.0.1", "3.7", "3.6.4", "3.6.3", "3.6.2", "3.6.1",
                        "3.6", "3.5", "3.4", "3.3">>[i])]]

(* What the "releases" array of the response holds *)
Listings ==
    { <<>>, LongListing, RegistryReleases(PANDOC_REPO), RegistryReleases(TYPST_REPO),
      <<[tag |-> Some("3.6")], [tag |-> None], [tag |-> Some("3.7.0.2")]>> }

(* limit: Option<u32> *)
Limits == {None, Some(0), Some(1), Some(2), Some(50)}

GetPandocReleases(releases_data, limit, api) ==
    /\ cmdCall = None
    /\ cmdCall' = Some([op |-> "get_pandoc_releases", limit |-> limit, api |-> api,
                        releases_data |-> releases_data])
    /\ cmdResult' = Some(get_pandoc_releases_from(releases_data, limit, api))
    /\ UNCHANGED <<platVars, dlVars, mgrVars, envVars, resVars, locVars, regVars,
                   verVars, arcVars, updVars>>

InitReleases == InitSearch

NextReleases ==
    \E releases_data \in Listings, limit \in Limits, api \in ApiOutcomes :
        GetPandocReleases(releases_data, limit, api)

SpecReleases == InitReleases /\ [][NextReleases]_vars

(* C29: the releases returned are at most `limit` (at most 10 when no limit
   is given), in the order the registry listed them. *)
C29_ReleasesWithinLimit ==
    ( /\ IsSome(cmdCall)
      /\ Unwrap(cmdCall).op = "get_pandoc_releases"
      /\ Unwrap(cmdResult).ok )
    => LET c == Unwrap(cmdCall)
           r == Unwrap(cmdResult).val
           most == IF IsSome(c.limit) THEN Unwrap(c.limit) ELSE 10
       IN  /\ Len(r) <= most
           /\ Len(r) <= Len(c.releases_data)
           /\ \A i \in 1..Len(r) :
                 r[i].tag_name = IF IsSome(c.releases_data[i].tag)
                                 THEN Unwrap(c.releases_data[i].tag) ELSE ""

----------------------------------------------------------------------------
(* Normalizing a normalized version *)

(* C30: normalizing is idempotent: normalizing what normalize_version
   returned gives the same string again. *)
C30_NormalizeIdempotent ==
    IsSome(normalized) => normalize_version(Unwrap(normalized)) = Unwrap(normalized)

====
